---- MODULE Spec2Model ----
(***************************************************************************)
(* Discovery-and-health pipeline of the Moonraker host scanner             *)
(* (src-tauri/src): subnet expansion, two-phase batched probing            *)
(* (network/scanner.rs, network/port_checker.rs), the Moonraker API        *)
(* wrappers (api/moonraker.rs) and the status resolver (models/api.rs).    *)
(***************************************************************************)
EXTENDS Integers, Sequences, FiniteSets, TLC

(***************************************************************************)
(* Bounds of the model.  The two concurrency ceilings are 200 and 50 in    *)
(* models/config.rs; the model keeps the chunking code and scales the      *)
(* ceilings down so that a scan still spans several batches.               *)
(***************************************************************************)
MaxFailures == 5

AddrBits == 3

MaxSubnets == 2

PORT_SCAN_CONCURRENCY == 2

API_SCAN_CONCURRENCY == 2

(* How many monitoring tasks are spawned and how many check cycles each    *)
(* of them begins.                                                         *)
MaxMonitors == 2

MaxCycles == 3

(***************************************************************************)
(* Program constants (models/config.rs).                                   *)
(***************************************************************************)
PORT_SCAN_RETRY_COUNT == 1

API_SCAN_RETRY_COUNT == 3

DEFAULT_PORT_SCAN_TIMEOUT_MS == 500

SLOW_NETWORK_TIMEOUT_MS == 800

(***************************************************************************)
(* Option<T>: None is the empty sequence, Some(x) the one-element sequence.*)
(***************************************************************************)
None == << >>

Some(x) == << x >>

IsSome(o) == Len(o) = 1

Unwrap(o) == o[1]

RECURSIVE Pow2(_)
Pow2(n) == IF n = 0 THEN 1 ELSE 2 * Pow2(n - 1)

(***************************************************************************)
(* models/api.rs: PrinterFlags and the status resolver.                    *)
(***************************************************************************)
PrinterFlags ==
    [operational : BOOLEAN, paused : BOOLEAN, printing : BOOLEAN,
     cancelling : BOOLEAN, pausing : BOOLEAN, resuming : BOOLEAN,
     sd_ready : BOOLEAN, error : BOOLEAN, ready : BOOLEAN,
     closed_or_error : BOOLEAN]

get_status_error_first(flags) ==
    IF flags.error THEN "error"
    ELSE IF flags.cancelling THEN "cancelling"
    ELSE IF flags.paused THEN "paused"
    ELSE IF flags.printing THEN "printing"
    ELSE "standby"

get_status(flags) ==
    IF flags.cancelling THEN "cancelling"
    ELSE IF flags.error THEN "error"
    ELSE IF flags.paused THEN "paused"
    ELSE IF flags.printing THEN "printing"
    ELSE IF flags.ready THEN "standby"
    ELSE "standby"

(* telegram/bot.rs: get_printer_status(host). *)
get_printer_status(host) ==
    IF host.status = "offline" THEN "offline"
    ELSE IF IsSome(host.klippy_state)
            /\ Unwrap(host.klippy_state) = "disconnected" THEN "offline"
    ELSE IF IsSome(host.printer_flags)
    THEN LET flags == Unwrap(host.printer_flags)
         IN IF flags.cancelling THEN "cancelling"
            ELSE IF flags.error THEN "error"
            ELSE IF flags.paused THEN "paused"
            ELSE IF flags.printing THEN "printing"
            ELSE IF flags.ready THEN "standby"
            ELSE "standby"
    ELSE IF host.device_status \in {"offline", "klippy_disconnected"}
         THEN "offline"
    ELSE IF IsSome(host.klippy_state) /\ Unwrap(host.klippy_state) = "error"
         THEN "error"
    ELSE "standby"

(* lib.rs: printer_state in scan_host. *)
lib_printer_state(printer_flags) ==
    IF IsSome(printer_flags)
    THEN LET flags == Unwrap(printer_flags)
         IN IF flags.error THEN "error"
            ELSE IF flags.cancelling THEN "cancelling"
            ELSE IF flags.paused THEN "paused"
            ELSE IF flags.printing THEN "printing"
            ELSE IF flags.ready THEN "standby"
            ELSE "standby"
    ELSE "standby"

(* The flag object get_printer_flags fabricates when the 2xx body carries  *)
(* no state, no state.flags, or flags that do not deserialize.             *)
DefaultFlags ==
    [operational |-> FALSE, paused |-> FALSE, printing |-> FALSE,
     cancelling |-> FALSE, pausing |-> FALSE, resuming |-> FALSE,
     sd_ready |-> FALSE, error |-> FALSE, ready |-> TRUE,
     closed_or_error |-> FALSE]

(***************************************************************************)
(* models/host.rs: the HostInfo record and its update methods.             *)
(***************************************************************************)
HostInfoNew(ip_address, hostname, subnet) ==
    [id |-> ip_address, hostname |-> hostname, original_hostname |-> hostname,
     ip_address |-> ip_address, subnet |-> subnet, status |-> "offline",
     device_status |-> "standby", moonraker_version |-> None,
     klippy_state |-> None, printer_state |-> None, printer_flags |-> None,
     last_seen |-> None, failed_attempts |-> Some(0)]

(* An update_online that leaves the failure counter alone. *)
update_online_keeps_count(self, version, klippy_state, printer_flags) ==
    [self EXCEPT
       !.status = "online",
       !.moonraker_version = Some(version),
       !.klippy_state = Some(klippy_state),
       !.printer_flags = printer_flags,
       !.device_status = IF IsSome(printer_flags)
                         THEN get_status(Unwrap(printer_flags)) ELSE @,
       !.printer_state = IF IsSome(printer_flags)
                         THEN Some(get_status(Unwrap(printer_flags))) ELSE @,
       !.last_seen = Some("now")]

update_online(self, moonraker_version, klippy_state, printer_flags) ==
    [self EXCEPT
       !.status = "online",
       !.moonraker_version = Some(moonraker_version),
       !.klippy_state = Some(klippy_state),
       !.printer_flags = printer_flags,
       !.device_status = IF IsSome(printer_flags)
                         THEN get_status(Unwrap(printer_flags)) ELSE @,
       !.printer_state = IF IsSome(printer_flags)
                         THEN Some(get_status(Unwrap(printer_flags))) ELSE @,
       !.last_seen = Some("now"),
       !.failed_attempts = Some(0)]

(* self.failed_attempts.unwrap_or(0) *)
FailedAttempts(self) ==
    IF IsSome(self.failed_attempts) THEN Unwrap(self.failed_attempts) ELSE 0

(* An update_offline that flips the status one failure early. *)
update_offline_early(self) ==
    LET failed_attempts == FailedAttempts(self) + 1
    IN [self EXCEPT
          !.failed_attempts = Some(failed_attempts),
          !.status = IF failed_attempts >= 2 THEN "offline" ELSE @]

(* An update_offline that also drops what the last probe reported. *)
update_offline_forgets_probe(self) ==
    LET failed_attempts == FailedAttempts(self) + 1
    IN [self EXCEPT
          !.failed_attempts = Some(failed_attempts),
          !.status = IF failed_attempts >= 3 THEN "offline" ELSE @,
          !.printer_flags = None, !.klippy_state = None]

update_offline(self) ==
    LET failed_attempts == FailedAttempts(self) + 1
    IN [self EXCEPT
          !.failed_attempts = Some(failed_attempts),
          !.status = IF failed_attempts >= 3 THEN "offline" ELSE @]

is_offline(self) == FailedAttempts(self) >= 3

(***************************************************************************)
(* network/ip_utils.rs: CIDR expansion over AddrBits-bit addresses.  A     *)
(* range is the string "addr/prefix".  IpNetwork::from_str rejects text    *)
(* that is no address/prefix pair and a prefix longer than the address     *)
(* width; it keeps the host bits of addr, network() masks them off.        *)
(***************************************************************************)
Addr == 0 .. (Pow2(AddrBits) - 1)

IpString(a) == ToString(a)

IpStrings == { IpString(a) : a \in Addr }

CidrString(a, p) == ToString(a) \o "/" \o ToString(p)

Networks == [addr : Addr, prefix : 0 .. AddrBits]

IpNetworkFromStr(subnet) ==
    IF \E n \in Networks : CidrString(n.addr, n.prefix) = subnet
    THEN Some(CHOOSE n \in Networks : CidrString(n.addr, n.prefix) = subnet)
    ELSE None

NetSize(net) == Pow2(AddrBits - net.prefix)

Network(net) == (net.addr \div NetSize(net)) * NetSize(net)

Broadcast(net) == Network(net) + NetSize(net) - 1

NetworkIter(net) == [i \in 1 .. NetSize(net) |-> Network(net) + i - 1]

KeepAllButNetwork(net, a) == a /= Network(net)

KeepHost(net, a) == a /= Network(net) /\ a /= Broadcast(net)

generate_ip_range(subnet) ==
    LET parsed == IpNetworkFromStr(subnet)
    IN IF ~IsSome(parsed)
       THEN [ok |-> FALSE, err |-> "InvalidSubnet", ips |-> << >>]
       ELSE LET network == Unwrap(parsed)
                it == NetworkIter(network)
                RECURSIVE Collect(_)
                Collect(i) ==
                    IF i > Len(it) THEN << >>
                    ELSE IF KeepHost(network, it[i])
                         THEN << IpString(it[i]) >> \o Collect(i + 1)
                         ELSE Collect(i + 1)
            IN [ok |-> TRUE, err |-> "", ips |-> Collect(1)]

(***************************************************************************)
(* HTTP responses as get_moonraker_endpoint (api/client.rs) sees them: a   *)
(* transport error or non-2xx status, or a 2xx JSON body.  "shape" says    *)
(* what the body deserializes to.                                          *)
(***************************************************************************)
HttpFail == [http |-> "fail", shape |-> "none", klippy_state |-> "",
             hostname |-> None, flags |-> None]

HttpBody(shape, klippy, hostname, flags) ==
    [http |-> "2xx", shape |-> shape, klippy_state |-> klippy,
     hostname |-> hostname, flags |-> flags]

Err == [ok |-> FALSE, val |-> None]

Ok(v) == [ok |-> TRUE, val |-> Some(v)]

get_moonraker_endpoint(response) ==
    IF response.http = "2xx" THEN Ok(response) ELSE Err

(* api/moonraker.rs *)
check_moonraker_api(response) ==
    LET data == get_moonraker_endpoint(response)
    IN IF ~data.ok THEN Err
       ELSE IF Unwrap(data.val).shape = "server_info"
            THEN Ok([klippy_state |-> Unwrap(data.val).klippy_state,
                     moonraker_version |-> "v0.9.3"])
            ELSE Ok([klippy_state |-> "disconnected",
                     moonraker_version |-> "unknown"])

(* The hostname a /printer/info response reports, if it reports one. *)
ReportedHostname(response) ==
    IF response.http = "2xx" /\ response.shape = "printer_info"
    THEN response.hostname ELSE None

get_printer_info(response, host) ==
    LET data == get_moonraker_endpoint(response)
    IN IF ~data.ok THEN Err
       ELSE IF Unwrap(data.val).shape = "printer_info"
            THEN Ok([hostname |-> Unwrap(data.val).hostname])
            ELSE Ok([hostname |-> Some(host)])

(* data.get("state"), state.get("flags") and serde_json::from_value on    *)
(* the flags, by the shape of the body.                                   *)
HasState(data) == data.shape \in {"flags", "state_no_flags", "state_bad_flags"}

HasFlags(data) == data.shape \in {"flags", "state_bad_flags"}

FlagsParse(data) == data.shape = "flags"

(* A flags probe that answers the default flag set to a failed request. *)
get_printer_flags_or_default(response) ==
    LET data == get_moonraker_endpoint(response)
    IN IF ~data.ok THEN Ok(DefaultFlags)
       ELSE IF HasState(Unwrap(data.val))
            THEN IF HasFlags(Unwrap(data.val))
                 THEN IF FlagsParse(Unwrap(data.val))
                      THEN Ok(Unwrap(Unwrap(data.val).flags))
                      ELSE Ok(DefaultFlags)
                 ELSE Ok(DefaultFlags)
            ELSE Ok(DefaultFlags)

get_printer_flags(response) ==
    LET data == get_moonraker_endpoint(response)
    IN IF ~data.ok THEN Err
       ELSE IF HasState(Unwrap(data.val))
            THEN IF HasFlags(Unwrap(data.val))
                 THEN IF FlagsParse(Unwrap(data.val))
                      THEN Ok(Unwrap(Unwrap(data.val).flags))
                      ELSE Ok(DefaultFlags)
                 ELSE Ok(DefaultFlags)
            ELSE Ok(DefaultFlags)

(***************************************************************************)
(* One asynchronous probe: the adaptive port probe alone (kind "port", a   *)
(* phase-1 future of scan_multiple_ips_for_moonraker), scan_host (kind     *)
(* "scan_host") or check_host_status (kind "check").  pc is the await the  *)
(* future is suspended at.                                                 *)
(***************************************************************************)
OfflineResponse ==
    [success |-> FALSE, status |-> "offline", device_status |-> None,
     moonraker_version |-> None, klippy_state |-> None,
     printer_state |-> None, printer_flags |-> None]


(* A probe that tries to connect whatever the address text is. *)
NewTaskAlwaysConnects(kind, ip) ==
    [kind |-> kind, ip |-> ip, pc |-> "connect",
     timeout_ms |-> DEFAULT_PORT_SCAN_TIMEOUT_MS,
     pattempt |-> 0, attempt |-> 0, open |-> FALSE,
     server |-> None, hostname |-> "", result |-> None]

(* SocketAddr::from_str fails on a malformed address: both calls of        *)
(* check_port_with_retry return false without a connect.                   *)
NewTask(kind, ip) ==
    [kind |-> kind, ip |-> ip,
     pc |-> IF ip \in IpStrings THEN "connect" ELSE "done",
     timeout_ms |-> IF ip \in IpStrings THEN DEFAULT_PORT_SCAN_TIMEOUT_MS
                    ELSE 0,
     pattempt |-> 0, attempt |-> 0, open |-> FALSE,
     server |-> None, hostname |-> "",
     result |-> IF ip \in IpStrings \/ kind /= "check" THEN None
                ELSE Some(OfflineResponse)]

(* A resolved future keeps only its output. *)
Resolved(t, open, result) ==
    [kind |-> t.kind, ip |-> t.ip, pc |-> "done", timeout_ms |-> 0,
     pattempt |-> 0, attempt |-> 0, open |-> open, server |-> None,
     hostname |-> "", result |-> result]

(* check_port_with_retry returned true, so check_moonraker_port_adaptive   *)
(* returns true; scan_host and check_host_status go on to /server/info.    *)
TaskConnectOk(t) ==
    IF t.kind = "port"
    THEN Resolved(t, TRUE, None)
    ELSE [t EXCEPT !.pc = "server_info", !.open = TRUE, !.timeout_ms = 0,
                   !.pattempt = 0, !.attempt = 0]

(* A probe whose failure does not end the call. *)
TaskConnectFailGoesOn(t) ==
    IF t.timeout_ms = DEFAULT_PORT_SCAN_TIMEOUT_MS
    THEN [t EXCEPT !.timeout_ms = SLOW_NETWORK_TIMEOUT_MS, !.pattempt = 0]
    ELSE IF t.kind = "port" THEN Resolved(t, FALSE, None)
    ELSE [t EXCEPT !.pc = "server_info", !.open = FALSE, !.timeout_ms = 0,
                   !.pattempt = 0, !.attempt = 0]

(* A probe that gives up after the short-timeout tier. *)
TaskConnectFailSkipsSlowTier(t) ==
    IF t.pattempt < PORT_SCAN_RETRY_COUNT - 1
    THEN [t EXCEPT !.pattempt = @ + 1]
    ELSE Resolved(t, FALSE,
                  IF t.kind = "check" THEN Some(OfflineResponse) ELSE None)

(* A refused or timed-out connect: next attempt of the same tier, then the *)
(* slow-network tier, then false.                                          *)
TaskConnectFail(t) ==
    IF t.pattempt < PORT_SCAN_RETRY_COUNT - 1
    THEN [t EXCEPT !.pattempt = @ + 1]
    ELSE IF t.timeout_ms = DEFAULT_PORT_SCAN_TIMEOUT_MS
    THEN [t EXCEPT !.timeout_ms = SLOW_NETWORK_TIMEOUT_MS, !.pattempt = 0]
    ELSE Resolved(t, FALSE,
                  IF t.kind = "check" THEN Some(OfflineResponse) ELSE None)

KlippyNeverDisconnected(server_info) == FALSE

KlippyDisconnected(server_info) == server_info.klippy_state = "disconnected"

KlippyDisconnectedResponse(server_info) ==
    [success |-> FALSE, status |-> "offline",
     device_status |-> Some("klippy_disconnected"),
     moonraker_version |-> Some(server_info.moonraker_version),
     klippy_state |-> Some(server_info.klippy_state),
     printer_state |-> Some("offline"), printer_flags |-> None]

(* A retry loop that runs once more than API_SCAN_RETRY_COUNT times. *)
TaskServerInfoOneMoreTry(t, response) ==
    LET r == check_moonraker_api(response)
    IN IF r.ok
       THEN IF t.kind = "check"
            THEN IF KlippyDisconnected(Unwrap(r.val))
                 THEN Resolved(t, TRUE,
                        Some(KlippyDisconnectedResponse(Unwrap(r.val))))
                 ELSE [t EXCEPT !.pc = "printer_flags", !.server = r.val,
                                !.attempt = 0]
            ELSE [t EXCEPT !.pc = "printer_info", !.server = r.val,
                           !.attempt = 0]
       ELSE IF t.attempt < API_SCAN_RETRY_COUNT
            THEN [t EXCEPT !.pc = "retry_sleep"]
            ELSE Resolved(t, TRUE,
                   IF t.kind = "check" THEN Some(OfflineResponse) ELSE None)

(* The match on check_moonraker_api inside the retry loop. *)
TaskServerInfo(t, response) ==
    LET r == check_moonraker_api(response)
    IN IF r.ok
       THEN IF t.kind = "check"
            THEN IF KlippyDisconnected(Unwrap(r.val))
                 THEN Resolved(t, TRUE,
                        Some(KlippyDisconnectedResponse(Unwrap(r.val))))
                 ELSE [t EXCEPT !.pc = "printer_flags", !.server = r.val,
                                !.attempt = 0]
            ELSE [t EXCEPT !.pc = "printer_info", !.server = r.val,
                           !.attempt = 0]
       ELSE IF t.attempt < API_SCAN_RETRY_COUNT - 1
            THEN [t EXCEPT !.pc = "retry_sleep"]
            ELSE Resolved(t, TRUE,
                   IF t.kind = "check" THEN Some(OfflineResponse) ELSE None)

(* A retry that does not count its attempt. *)
TaskRetryWakeSameAttempt(t) == [t EXCEPT !.pc = "server_info"]

(* The 100 ms sleep is over: continue with the next attempt. *)
TaskRetryWake(t) == [t EXCEPT !.pc = "server_info", !.attempt = @ + 1]

(* A hostname lookup that leaves the hostname empty when the request fails. *)
TaskPrinterInfoNoFallback(t, response) ==
    LET r == get_printer_info(response, t.ip)
        hostname == IF r.ok
                    THEN IF IsSome(Unwrap(r.val).hostname)
                         THEN Unwrap(Unwrap(r.val).hostname)
                         ELSE t.ip
                    ELSE ""
    IN [t EXCEPT !.pc = "printer_flags", !.hostname = hostname]

(* scan_host: the match on get_printer_info, hostname.unwrap_or(ip). *)
TaskPrinterInfo(t, response) ==
    LET r == get_printer_info(response, t.ip)
        hostname == IF r.ok
                    THEN IF IsSome(Unwrap(r.val).hostname)
                         THEN Unwrap(Unwrap(r.val).hostname)
                         ELSE t.ip
                    ELSE t.ip
    IN [t EXCEPT !.pc = "printer_flags", !.hostname = hostname]

PrinterState(printer_flags) ==
    IF IsSome(printer_flags) THEN get_status(Unwrap(printer_flags))
    ELSE "standby"

ScanHostInfo(t, printer_flags) ==
    [id |-> t.ip, hostname |-> t.hostname, original_hostname |-> t.hostname,
     ip_address |-> t.ip, subnet |-> "", status |-> "online",
     device_status |-> PrinterState(printer_flags),
     moonraker_version |-> Some(Unwrap(t.server).moonraker_version),
     klippy_state |-> Some(Unwrap(t.server).klippy_state),
     printer_state |-> Some(PrinterState(printer_flags)),
     printer_flags |-> printer_flags,
     last_seen |-> Some("now"), failed_attempts |-> Some(0)]

OnlineResponse(t, printer_flags) ==
    [success |-> TRUE, status |-> "online",
     device_status |-> Some(PrinterState(printer_flags)),
     moonraker_version |-> Some(Unwrap(t.server).moonraker_version),
     klippy_state |-> Some(Unwrap(t.server).klippy_state),
     printer_state |-> Some(PrinterState(printer_flags)),
     printer_flags |-> printer_flags]

TaskPrinterFlags(t, response) ==
    LET r == get_printer_flags(response)
        printer_flags == IF r.ok THEN r.val ELSE None
    IN Resolved(t, TRUE,
                IF t.kind = "check"
                THEN Some(OnlineResponse(t, printer_flags))
                ELSE Some(ScanHostInfo(t, printer_flags)))

(***************************************************************************)
(* What the network may answer.  Listeners are the addresses where a       *)
(* service may accept connections on port 7125 (it need not, and it need   *)
(* not be a healthy Moonraker); a connect to any other address fails.      *)
(***************************************************************************)
Listeners == {"1", "2", "5"}

KlippyStates == {"ready", "disconnected"}

PrintingFlags ==
    [DefaultFlags EXCEPT !.operational = TRUE, !.printing = TRUE,
                         !.ready = FALSE]

Garbage == HttpBody("garbage", "", None, None)

ServerInfoBody(k) == HttpBody("server_info", k, None, None)

PrinterInfoBody(hostname) == HttpBody("printer_info", "", hostname, None)

FlagsBody(f) == HttpBody("flags", "", None, Some(f))

(* 2xx bodies of /api/printer without usable flags: no state object, a    *)
(* state without flags, flags that do not deserialize.                    *)
StateWithoutFlags == HttpBody("state_no_flags", "", None, None)

UnparsableFlags == HttpBody("state_bad_flags", "", None, None)

FlaglessBodies == {Garbage, StateWithoutFlags, UnparsableFlags}

(* Answers during a full scan. *)
ScanServerInfoResponses ==
    {HttpFail} \cup { ServerInfoBody(k) : k \in KlippyStates }

ScanPrinterInfoResponses == {HttpFail, PrinterInfoBody(Some("voron"))}

ScanFlagsResponses == {HttpFail, FlagsBody(PrintingFlags)}

(* Answers to a single-host call: every body shape, every flag set. *)
ServerInfoResponses ==
    {HttpFail, Garbage} \cup { ServerInfoBody(k) : k \in KlippyStates }

PrinterInfoResponses ==
    {HttpFail, Garbage, PrinterInfoBody(None), PrinterInfoBody(Some("voron"))}

FlagsResponses ==
    {HttpFail} \cup FlaglessBodies \cup { FlagsBody(f) : f \in PrinterFlags }

(* Inputs of the single-host commands: a listener's address and a string   *)
(* SocketAddr::from_str rejects; the host's Klippy state and flag set.     *)
CallAddresses == {"1", "printer.local"}

Devices == [klippy_state : KlippyStates, flags : PrinterFlags]

(***************************************************************************)
(* Inputs of scan_network: up to MaxSubnets SubnetConfig entries over two  *)
(* disjoint valid ranges (two hosts each) and one invalid CIDR string.     *)
(***************************************************************************)
RangeA == CidrString(0, AddrBits - 2)

RangeB == CidrString(4, AddrBits - 2)

RangeBad == CidrString(0, AddrBits + 1)

ScanRanges == {RangeA, RangeB, RangeBad}

SubnetConfig == [range : ScanRanges, enabled : BOOLEAN]

SubnetLists ==
    UNION { [1 .. n -> SubnetConfig] : n \in 0 .. MaxSubnets }

VARIABLES
    enabled_subnets,      \* scan_network: enabled_subnets
    disabled_ranges,      \* history: ranges of the entries the filter dropped
    scanPc,               \* where scan_network is suspended
    all_ips,              \* scan_network: all_ips
    ip_subnet_map,        \* scan_network: ip_subnet_map
    total_ips,            \* scan_network: total_ips
    offset,               \* start of the current chunk in the chunked vector
    tasks,                \* the futures join_all is driving
    port_scan_results,    \* scan_multiple_ips_for_moonraker: results
    hosts_with_open_port, \* scan_network: hosts_with_open_port
    all_hosts,            \* scan_network: all_hosts
    online_hosts,         \* scan_network: online_hosts
    scanResult,           \* the value scan_network returned
    lastProbe,            \* history: outcome of the latest port probe per ip
    apiRequested,         \* history: addresses an HTTP request was sent to
    started,              \* history: <<phase, index>> of every future started
    finished,             \* history: futures that ran to completion
    collected,            \* history: futures whose result was taken over
    liveOk,               \* history: addresses whose /server/info call was Ok
    answered,             \* history: per address, the /server/info body,
                          \* the hostname reported, the flags probe's result
    device,               \* single-host call: what the host would answer
    callProbe,            \* single-host call: how its port probe went
    probeLog,             \* history: << timeout_ms, connected >> per connect
    liveRequests,         \* history: /server/info requests sent by the call
    liveFailures,         \* history: how many of them returned Err
    flagsIn,              \* argument of PrinterFlags::get_status
    statusOut,            \* its return value
    host,                 \* a HostInfo record: self of update_online/offline
    failures,             \* history: update_offline calls since the last
                          \* update_online (or since the record was built)
    streakFrom,           \* history: host.status when that streak began
    prevFailures,         \* history: the counter before the last call
    lastOp,               \* history: the method called last on host
    rangeIn,              \* generate_ip_range: subnet
    rangeNet,             \* generate_ip_range: network
    rangeIdx,             \* generate_ip_range: position of network.iter()
    rangeIps,             \* generate_ip_range: ips
    rangeOut,             \* generate_ip_range: the value returned
    is_running,           \* BackgroundMonitorState: is_running
    task_handle,          \* BackgroundMonitorState: task_handle
    startPc,              \* where start() is suspended
    monitors,             \* the tasks start() spawned
    reg_state,            \* TelegramBot: _registration_state
    clock,                \* SystemTime::now() in seconds
    registered_users,     \* TelegramBot: registered_users
    handlers,             \* the update handlers the dispatcher is running
    addedInSession,       \* history: users pushed since start_registration
    wrongCodes,           \* history: wrong codes handled since then
    lastStart,            \* history: the last start_registration call
    lastRun,              \* history: what the last handler run sent
    config,               \* TelegramBotManager: config
    manager_running,      \* TelegramBotManager: is_running
    configLock,           \* who holds the guard of the config mutex
    managerPc,            \* where the manager call in flight is suspended
    managerCall,          \* the method the caller invoked
    updateArg,            \* update_config: config
    prevConfig,           \* history: self.config when update_config began
    wasRunning,           \* history: is_running when update_config began
    stoppedBot            \* history: update_config called stop()

scanVars ==
    << enabled_subnets, disabled_ranges, scanPc, all_ips, ip_subnet_map, total_ips, offset, tasks,
       port_scan_results, hosts_with_open_port, all_hosts, online_hosts,
       scanResult, lastProbe, apiRequested, started, finished, collected,
       liveOk, answered >>

logVars == << probeLog, liveRequests, liveFailures >>

callVars == << device, callProbe, logVars >>

(* No single-host call made, nothing logged. *)
CallIdle ==
    /\ device = None
    /\ callProbe = "none"
    /\ probeLog = << >>
    /\ liveRequests = 0
    /\ liveFailures = 0

Min(a, b) == IF a < b THEN a ELSE b

ChunkTooLong(seq, off, n) ==
    SubSeq(seq, off + 1, Min(off + n + 1, Len(seq)))

(* slice::chunks(n): the chunk that starts after `off` elements. *)
Chunk(seq, off, n) == SubSeq(seq, off + 1, Min(off + n, Len(seq)))

FirstChunkOnly(seq, off) == off = 0 /\ off < Len(seq)

(* The `for chunk in ....chunks(n)` loop has another chunk to run. *)
MoreChunks(seq, off) == off < Len(seq)

JoinFirstReady(ts) == \E i \in DOMAIN ts : ts[i].pc = "done"

(* join_all resolves once every future of the chunk has resolved. *)
JoinAllReady(ts) == \A i \in DOMAIN ts : ts[i].pc = "done"

AllSubnets(sn) == sn

(* subnets.into_iter().filter(|s| s.enabled).collect() *)
EnabledSubnets(sn) == SelectSeq(sn, LAMBDA s : s.enabled)

EmptyMap == [ip \in {} |-> ""]

(* A loop that skips a subnet that does not parse and scans the rest. *)
RECURSIVE ExpandValidSubnets(_, _, _)
ExpandValidSubnets(enabled, k, acc) ==
    IF k > Len(enabled) THEN acc
    ELSE LET r == generate_ip_range(enabled[k].range)
         IN ExpandValidSubnets(enabled, k + 1,
              [ok |-> TRUE, err |-> "",
               total_ips |-> acc.total_ips + Len(r.ips),
               all_ips |-> acc.all_ips \o r.ips,
               ip_subnet_map |-> EmptyMap])

(* The expansion loop of scan_network over enabled_subnets[k..]. *)
RECURSIVE ExpandSubnets(_, _, _)
ExpandSubnets(enabled, k, acc) ==
    IF k > Len(enabled) THEN acc
    ELSE LET r == generate_ip_range(enabled[k].range)
         IN IF ~r.ok
            THEN [acc EXCEPT !.ok = FALSE, !.err = r.err]
            ELSE ExpandSubnets(enabled, k + 1,
                   [ok |-> TRUE, err |-> "",
                    total_ips |-> acc.total_ips + Len(r.ips),
                    all_ips |-> acc.all_ips \o r.ips,
                    ip_subnet_map |->
                        [ip \in DOMAIN acc.ip_subnet_map \cup
                                { r.ips[j] : j \in DOMAIN r.ips } |->
                           IF \E j \in DOMAIN r.ips : r.ips[j] = ip
                           THEN enabled[k].range
                           ELSE acc.ip_subnet_map[ip]]])

EmptyExpansion ==
    [ok |-> TRUE, err |-> "", total_ips |-> 0, all_ips |-> << >>,
     ip_subnet_map |-> EmptyMap]

OkResult(hosts, total, online) ==
    [ok |-> TRUE, err |-> "", hosts |-> hosts, total_hosts |-> total,
     online_hosts |-> online, scan_progress |-> 100]

ErrResult(e) ==
    [ok |-> FALSE, err |-> e, hosts |-> << >>, total_hosts |-> 0,
     online_hosts |-> 0, scan_progress |-> 0]

NoResult ==
    [ok |-> FALSE, err |-> "pending", hosts |-> << >>, total_hosts |-> 0,
     online_hosts |-> 0, scan_progress |-> 0]

(* results.insert(ip, is_open) for the chunk results, in chunk order. *)
RECURSIVE InsertResults(_, _, _)
InsertResults(results, ts, i) ==
    IF i > Len(ts) THEN results
    ELSE InsertResults(
           [ip \in DOMAIN results \cup {ts[i].ip} |->
              IF ip = ts[i].ip THEN ts[i].open ELSE results[ip]],
           ts, i + 1)

(* An iteration that may yield an entry more than once. *)
OpenPortRepeats(results) ==
    LET open == { ip \in DOMAIN results : results[ip] }
    IN [1 .. Cardinality(open) -> open]

(* HashMap::into_iter yields the entries in an unspecified order: every    *)
(* ordering of the open addresses is a possible hosts_with_open_port.      *)
OpenPortOrders(results) ==
    LET open == { ip \in DOMAIN results : results[ip] }
    IN { f \in [1 .. Cardinality(open) -> open] :
           \A i, j \in DOMAIN f : i /= j => f[i] /= f[j] }

(* A collection loop that gives up at the first future without a host. *)
RECURSIVE CollectUntilFailure(_, _, _, _)
CollectUntilFailure(acc, ts, i, map) ==
    IF i > Len(ts) THEN acc
    ELSE IF IsSome(ts[i].result)
    THEN CollectUntilFailure(
           [hosts |-> Append(acc.hosts,
                        [Unwrap(ts[i].result) EXCEPT !.subnet =
                           IF ts[i].ip \in DOMAIN map THEN map[ts[i].ip]
                           ELSE ""]),
            online |-> acc.online + 1],
           ts, i + 1, map)
    ELSE acc

(* A collection loop that counts every future of the chunk as online. *)
RECURSIVE CollectCountsAll(_, _, _, _)
CollectCountsAll(acc, ts, i, map) ==
    IF i > Len(ts) THEN acc
    ELSE IF IsSome(ts[i].result)
    THEN CollectCountsAll(
           [hosts |-> Append(acc.hosts,
                        [Unwrap(ts[i].result) EXCEPT !.subnet =
                           IF ts[i].ip \in DOMAIN map THEN map[ts[i].ip]
                           ELSE ""]),
            online |-> acc.online + 1],
           ts, i + 1, map)
    ELSE CollectCountsAll([acc EXCEPT !.online = @ + 1], ts, i + 1, map)

(* A collection that takes over the first future of the chunk only. *)
RECURSIVE CollectFirstOnly(_, _, _, _)
CollectFirstOnly(acc, ts, i, map) ==
    IF i > Len(ts) \/ i > 1 THEN acc
    ELSE IF IsSome(ts[i].result)
    THEN CollectFirstOnly(
           [hosts |-> Append(acc.hosts,
                        [Unwrap(ts[i].result) EXCEPT !.subnet =
                           IF ts[i].ip \in DOMAIN map THEN map[ts[i].ip]
                           ELSE ""]),
            online |-> acc.online + 1],
           ts, i + 1, map)
    ELSE CollectFirstOnly(acc, ts, i + 1, map)

(* The collection loop of phase 2 over chunk_results[i..]. *)
RECURSIVE CollectHosts(_, _, _, _)
CollectHosts(acc, ts, i, map) ==
    IF i > Len(ts) THEN acc
    ELSE IF IsSome(ts[i].result)
    THEN CollectHosts(
           [hosts |-> Append(acc.hosts,
                        [Unwrap(ts[i].result) EXCEPT !.subnet =
                           IF ts[i].ip \in DOMAIN map THEN map[ts[i].ip]
                           ELSE ""]),
            online |-> acc.online + 1],
           ts, i + 1, map)
    ELSE CollectHosts(acc, ts, i + 1, map)

SpawnRest(kind, seq, off, n) ==
    [i \in 1 .. (Len(seq) - off) |-> NewTask(kind, seq[off + i])]

SpawnChunk(kind, seq, off, n) ==
    LET c == Chunk(seq, off, n)
    IN [i \in DOMAIN c |-> NewTask(kind, c[i])]

ChunkIndexes(phase, seq, off, n) ==
    { << phase, off + i >> : i \in DOMAIN Chunk(seq, off, n) }

resolverVars == << flagsIn, statusOut >>

hostVars == << host, failures, streakFrom, prevFailures, lastOp >>

rangeVars == << rangeIn, rangeNet, rangeIdx, rangeIps, rangeOut >>

monitorVars == << is_running, task_handle, startPc, monitors >>

botVars ==
    << reg_state, clock, registered_users, handlers, addedInSession,
       wrongCodes, lastStart, lastRun >>

managerVars ==
    << config, manager_running, configLock, managerPc, managerCall, updateArg,
       prevConfig, wasRunning, stoppedBot >>

pureVars ==
    << resolverVars, hostVars, rangeVars, monitorVars, botVars, managerVars >>

vars == << scanVars, callVars, pureVars >>

(* No HostInfo record under update and no generate_ip_range call running. *)
HostIdle ==
    /\ host = None
    /\ failures = 0
    /\ streakFrom = ""
    /\ prevFailures = 0
    /\ lastOp = ""

(* RegistrationState::new() *)
NewRegistrationState ==
    [is_active |-> FALSE, code |-> None, expires_at |-> None, attempts |-> 0,
     max_attempts |-> 3]

(* TelegramBot::new(): no session, no user, no update being handled. *)
BotIdle ==
    /\ reg_state = NewRegistrationState
    /\ clock = 0
    /\ registered_users = << >>
    /\ handlers = << >>
    /\ addedInSession = 0
    /\ wrongCodes = 0
    /\ lastStart = None
    /\ lastRun = None

(* TelegramBotManager::new() *)
NewBotConfig == [bot_token |-> "", enabled |-> FALSE]

ManagerIdle ==
    /\ config = NewBotConfig
    /\ manager_running = FALSE
    /\ configLock = "free"
    /\ managerPc = "idle"
    /\ managerCall = ""
    /\ updateArg = None
    /\ prevConfig = None
    /\ wasRunning = FALSE
    /\ stoppedBot = FALSE

(* BackgroundMonitorState::new() *)
MonitorIdle ==
    /\ is_running = FALSE
    /\ task_handle = None
    /\ startPc = "idle"
    /\ monitors = << >>

RangeIdle ==
    /\ rangeIn = ""
    /\ rangeNet = None
    /\ rangeIdx = 0
    /\ rangeIps = << >>
    /\ rangeOut = None

(***************************************************************************)
(* scan_network (network/scanner.rs) and scan_multiple_ips_for_moonraker   *)
(* (network/port_checker.rs).                                              *)
(***************************************************************************)
PhaseNo == IF scanPc = "phase1" THEN 1 ELSE IF scanPc = "phase2" THEN 2 ELSE 0

(* Phase 2 at the head of its chunk loop; past the last chunk the call     *)
(* returns Ok.                                                             *)
Phase2Continue(hwop, off, hosts, online, total) ==
    IF MoreChunks(hwop, off)
    THEN /\ scanPc' = "phase2"
         /\ offset' = off
         /\ tasks' = SpawnChunk("scan_host", hwop, off, API_SCAN_CONCURRENCY)
         /\ started' = started \cup
                ChunkIndexes(2, hwop, off, API_SCAN_CONCURRENCY)
         /\ scanResult' = scanResult
    ELSE /\ scanPc' = "done"
         /\ offset' = off
         /\ tasks' = << >>
         /\ started' = started
         /\ scanResult' = OkResult(hosts, total, online)

(* Phase 1 at the head of its chunk loop; past the last chunk              *)
(* scan_multiple_ips_for_moonraker returns and phase 2 begins.             *)
Phase1Continue(ips, off, results, total) ==
    IF MoreChunks(ips, off)
    THEN /\ scanPc' = "phase1"
         /\ offset' = off
         /\ tasks' = SpawnChunk("port", ips, off, PORT_SCAN_CONCURRENCY)
         /\ started' = started \cup
                ChunkIndexes(1, ips, off, PORT_SCAN_CONCURRENCY)
         /\ scanResult' = scanResult
         /\ hosts_with_open_port' = hosts_with_open_port
    ELSE \E order \in OpenPortOrders(results) :
            /\ hosts_with_open_port' = order
            /\ Phase2Continue(order, 0, << >>, 0, total)

ScanStart(sn) ==
    /\ scanPc = "idle"
    /\ enabled_subnets' = EnabledSubnets(sn)
    /\ disabled_ranges' = { sn[k].range : k \in { j \in DOMAIN sn : ~sn[j].enabled } }
    /\ LET ex == ExpandSubnets(EnabledSubnets(sn), 1, EmptyExpansion)
       IN IF EnabledSubnets(sn) = << >>
          THEN /\ scanPc' = "done"
               /\ scanResult' = OkResult(<< >>, 0, 0)
               /\ UNCHANGED << all_ips, ip_subnet_map, total_ips, offset,
                               tasks, hosts_with_open_port, started >>
          ELSE IF ~ex.ok
          THEN /\ scanPc' = "done"
               /\ scanResult' = ErrResult(ex.err)
               /\ UNCHANGED << all_ips, ip_subnet_map, total_ips, offset,
                               tasks, hosts_with_open_port, started >>
          ELSE /\ all_ips' = ex.all_ips
               /\ ip_subnet_map' = ex.ip_subnet_map
               /\ total_ips' = ex.total_ips
               /\ Phase1Continue(ex.all_ips, 0, port_scan_results,
                                 ex.total_ips)
    /\ UNCHANGED << port_scan_results, all_hosts, online_hosts, lastProbe,
                    apiRequested, finished, collected, liveOk, answered >>
    /\ UNCHANGED << callVars, pureVars >>

Running == scanPc \in {"phase1", "phase2", "call"}

(* The step took the Ok arm of the match on check_moonraker_api. *)
LivenessOk(old, new) ==
    /\ old.pc = "server_info"
    /\ \/ new.pc \in {"printer_info", "printer_flags"}
       \/ new.pc = "done" /\ new.result \notin {None, Some(OfflineResponse)}

(* How a connect can fail: the timeout elapsed, or the peer refused. *)
ConnectFailures == {"timeout", "refused"}

(* Replace future i of the running chunk by its next state. *)
StepTask(i, new) ==
    /\ tasks' = [tasks EXCEPT ![i] = new]
    /\ finished' = IF new.pc = "done"
                   THEN finished \cup { << PhaseNo, offset + i >> }
                   ELSE finished
    /\ lastProbe' =
         IF tasks[i].pc = "connect" /\ new.pc /= "connect"
         THEN [lastProbe EXCEPT ![new.ip] =
                 IF new.open THEN "open" ELSE "closed"]
         ELSE lastProbe
    /\ apiRequested' =
         IF new.pc \in {"server_info", "printer_info", "printer_flags"}
         THEN apiRequested \cup {new.ip}
         ELSE apiRequested
    /\ liveOk' = IF LivenessOk(tasks[i], new) THEN liveOk \cup {new.ip}
                  ELSE liveOk
    /\ UNCHANGED << enabled_subnets, disabled_ranges, scanPc, all_ips, ip_subnet_map, total_ips,
                    offset, port_scan_results, hosts_with_open_port,
                    all_hosts, online_hosts, scanResult, started,
                    collected >>
    /\ UNCHANGED << device, pureVars >>

ConnectOk(i) ==
    /\ Running
    /\ tasks[i].pc = "connect"
    /\ tasks[i].ip \in Listeners
    /\ StepTask(i, TaskConnectOk(tasks[i]))
    /\ UNCHANGED answered
    /\ callProbe' = IF scanPc = "call" THEN "connected" ELSE callProbe

ConnectFail(i, cause) ==
    /\ Running
    /\ tasks[i].pc = "connect"
    /\ StepTask(i, TaskConnectFail(tasks[i]))
    /\ UNCHANGED answered
    /\ callProbe' = IF scanPc = "call" THEN cause ELSE callProbe

ServerInfoResponse(i, response) ==
    /\ Running
    /\ tasks[i].pc = "server_info"
    /\ StepTask(i, TaskServerInfo(tasks[i], response))
    /\ answered' = IF check_moonraker_api(response).ok
                   THEN [answered EXCEPT ![tasks[i].ip].server = Some(response)]
                   ELSE answered
    /\ UNCHANGED callProbe

RetryWake(i) ==
    /\ Running
    /\ tasks[i].pc = "retry_sleep"
    /\ StepTask(i, TaskRetryWake(tasks[i]))
    /\ UNCHANGED answered
    /\ UNCHANGED callProbe

PrinterInfoResponse(i, response) ==
    /\ Running
    /\ tasks[i].pc = "printer_info"
    /\ StepTask(i, TaskPrinterInfo(tasks[i], response))
    /\ answered' = [answered EXCEPT ![tasks[i].ip].info =
                                        Some(ReportedHostname(response))]
    /\ UNCHANGED callProbe

PrinterFlagsResponse(i, response) ==
    /\ Running
    /\ tasks[i].pc = "printer_flags"
    /\ StepTask(i, TaskPrinterFlags(tasks[i], response))
    /\ answered' = [answered EXCEPT ![tasks[i].ip].flags =
                                        Some(get_printer_flags(response))]
    /\ UNCHANGED callProbe

(* join_all of a phase-1 chunk resolved: take the results, then sleep. *)
Phase1Collect ==
    /\ scanPc = "phase1"
    /\ JoinAllReady(tasks)
    /\ port_scan_results' = InsertResults(port_scan_results, tasks, 1)
    /\ collected' = collected \cup
           { << 1, offset + i >> : i \in DOMAIN tasks }
    /\ tasks' = << >>
    /\ scanPc' = "phase1_pause"
    /\ UNCHANGED << enabled_subnets, disabled_ranges, all_ips, ip_subnet_map, total_ips, offset,
                    hosts_with_open_port, all_hosts, online_hosts,
                    scanResult, lastProbe, apiRequested, started, finished, liveOk, answered >>
    /\ UNCHANGED << callVars, pureVars >>

Phase1Resume ==
    /\ scanPc = "phase1_pause"
    /\ Phase1Continue(all_ips, offset + PORT_SCAN_CONCURRENCY,
                      port_scan_results, total_ips)
    /\ UNCHANGED << enabled_subnets, disabled_ranges, all_ips, ip_subnet_map, total_ips,
                    port_scan_results, all_hosts, online_hosts, lastProbe,
                    apiRequested, finished, collected, liveOk, answered >>
    /\ UNCHANGED << callVars, pureVars >>

(* join_all of a phase-2 chunk resolved: collect the hosts, then sleep. *)
Phase2Collect ==
    /\ scanPc = "phase2"
    /\ JoinAllReady(tasks)
    /\ LET acc == CollectHosts([hosts |-> all_hosts, online |-> online_hosts],
                               tasks, 1, ip_subnet_map)
       IN /\ all_hosts' = acc.hosts
          /\ online_hosts' = acc.online
    /\ collected' = collected \cup
           { << 2, offset + i >> : i \in DOMAIN tasks }
    /\ tasks' = << >>
    /\ scanPc' = "phase2_pause"
    /\ UNCHANGED << enabled_subnets, disabled_ranges, all_ips, ip_subnet_map, total_ips, offset,
                    port_scan_results, hosts_with_open_port, scanResult,
                    lastProbe, apiRequested, started, finished, liveOk, answered >>
    /\ UNCHANGED << callVars, pureVars >>

Phase2Resume ==
    /\ scanPc = "phase2_pause"
    /\ Phase2Continue(hosts_with_open_port, offset + API_SCAN_CONCURRENCY,
                      all_hosts, online_hosts, total_ips)
    /\ UNCHANGED << enabled_subnets, disabled_ranges, all_ips, ip_subnet_map, total_ips,
                    port_scan_results, hosts_with_open_port, all_hosts,
                    online_hosts, lastProbe, apiRequested, finished,
                    collected, liveOk, answered >>
    /\ UNCHANGED << callVars, pureVars >>

(* No request of the call or scan was answered yet. *)
NoAnswers == [server |-> None, info |-> None, flags |-> None]

ScanInit ==
    /\ enabled_subnets = << >>
    /\ disabled_ranges = {}
    /\ scanPc = "idle"
    /\ all_ips = << >>
    /\ ip_subnet_map = EmptyMap
    /\ total_ips = 0
    /\ offset = 0
    /\ tasks = << >>
    /\ port_scan_results = [ip \in {} |-> FALSE]
    /\ hosts_with_open_port = << >>
    /\ all_hosts = << >>
    /\ online_hosts = 0
    /\ scanResult = NoResult
    /\ lastProbe = [ip \in IpStrings \cup CallAddresses |-> "none"]
    /\ apiRequested = {}
    /\ started = {}
    /\ finished = {}
    /\ collected = {}
    /\ liveOk = {}
    /\ answered = [ip \in IpStrings \cup CallAddresses |-> NoAnswers]

(***************************************************************************)
(* The single-host commands (commands/scan.rs): get_host_info_command runs *)
(* scan_host, check_host_status_command runs check_host_status, on an      *)
(* address the front end passes in.  The host's state is fixed for the     *)
(* call; each request may still fail in transport or return garbage.       *)
(***************************************************************************)
SingleHostCall(kind, ip, dev) ==
    /\ scanPc = "idle"
    /\ scanPc' = "call"
    /\ tasks' = << NewTask(kind, ip) >>
    /\ device' = Some(dev)
    /\ started' = started \cup { << 0, 1 >> }
    /\ finished' = IF ip \in IpStrings THEN finished
                   ELSE finished \cup { << 0, 1 >> }
    /\ lastProbe' = IF ip \in IpStrings THEN lastProbe
                    ELSE [lastProbe EXCEPT ![ip] = "closed"]
    /\ UNCHANGED << enabled_subnets, disabled_ranges, all_ips, ip_subnet_map,
                    total_ips, offset, port_scan_results,
                    hosts_with_open_port, all_hosts, online_hosts, scanResult,
                    apiRequested, collected, liveOk, answered >>
    /\ callProbe' = IF ip \in IpStrings THEN "none" ELSE "malformed"
    /\ UNCHANGED << logVars, pureVars >>

ServerInfoAnswers ==
    IF scanPc = "call"
    THEN {HttpFail, Garbage, ServerInfoBody(Unwrap(device).klippy_state)}
    ELSE ScanServerInfoResponses

PrinterInfoAnswers ==
    IF scanPc = "call" THEN PrinterInfoResponses
    ELSE ScanPrinterInfoResponses

FlagsAnswers ==
    IF scanPc = "call"
    THEN {HttpFail, FlagsBody(Unwrap(device).flags)} \cup FlaglessBodies
    ELSE ScanFlagsResponses

Init ==
    /\ ScanInit
    /\ CallIdle
    /\ flagsIn = None
    /\ statusOut = ""
    /\ HostIdle
    /\ RangeIdle
    /\ MonitorIdle
    /\ BotIdle
    /\ ManagerIdle

Next ==
    \/ /\ scanPc = "idle"
       /\ \E sn \in SubnetLists : ScanStart(sn)
    \/ /\ scanPc = "idle"
       /\ \E kind \in {"scan_host", "check"}, ip \in CallAddresses,
             dev \in Devices : SingleHostCall(kind, ip, dev)
    \/ /\ \E i \in DOMAIN tasks : ConnectOk(i)
       /\ UNCHANGED logVars
    \/ /\ \E i \in DOMAIN tasks, cause \in ConnectFailures :
             ConnectFail(i, cause)
       /\ UNCHANGED logVars
    \/ /\ \E i \in DOMAIN tasks, r \in ServerInfoAnswers :
             ServerInfoResponse(i, r)
       /\ UNCHANGED logVars
    \/ /\ \E i \in DOMAIN tasks : RetryWake(i)
       /\ UNCHANGED logVars
    \/ /\ \E i \in DOMAIN tasks, r \in PrinterInfoAnswers :
             PrinterInfoResponse(i, r)
       /\ UNCHANGED logVars
    \/ /\ \E i \in DOMAIN tasks, r \in FlagsAnswers :
             PrinterFlagsResponse(i, r)
       /\ UNCHANGED logVars
    \/ Phase1Collect
    \/ Phase1Resume
    \/ Phase2Collect
    \/ Phase2Resume

Spec == Init /\ [][Next]_vars

(* Every connect and every request completes or times out, every sleep     *)
(* ends and the runtime polls a ready future: a step that can be taken is  *)
(* eventually taken.                                                       *)
SpecFair == Init /\ [][Next]_vars /\ WF_vars(Next)

(***************************************************************************)
(* PrinterFlags::get_status on every flag set.                             *)
(***************************************************************************)
ResolverInit ==
    /\ ScanInit
    /\ CallIdle
    /\ flagsIn \in { Some(f) : f \in PrinterFlags }
    /\ statusOut = ""
    /\ HostIdle
    /\ RangeIdle
    /\ MonitorIdle
    /\ BotIdle
    /\ ManagerIdle

Resolve ==
    /\ statusOut = ""
    /\ statusOut' = get_status(Unwrap(flagsIn))
    /\ UNCHANGED << scanVars, callVars, flagsIn, hostVars, rangeVars,
                    monitorVars, botVars, managerVars >>

SpecResolver == ResolverInit /\ [][Resolve]_vars

(***************************************************************************)
(* HostInfo records under update_online / update_offline (models/host.rs). *)
(* A record is built by HostInfo::new or by scan_host; afterwards the two  *)
(* methods are called in any order with any arguments.                     *)
(***************************************************************************)
ErrorFlags ==
    [DefaultFlags EXCEPT !.error = TRUE, !.closed_or_error = TRUE,
                         !.ready = FALSE]

PausedFlags ==
    [DefaultFlags EXCEPT !.operational = TRUE, !.paused = TRUE,
                         !.ready = FALSE]

HostFlagOptions ==
    {None, Some(DefaultFlags), Some(PrintingFlags), Some(ErrorFlags),
     Some(PausedFlags)}

(* The records scan_network returns for a host, subnet filled in. *)
ScanBuiltRecords ==
    { [ScanHostInfo([NewTask("scan_host", "1") EXCEPT
                       !.server = Some([klippy_state |-> k,
                                        moonraker_version |-> "v0.9.3"]),
                       !.hostname = "voron"], pf)
         EXCEPT !.subnet = RangeA] :
      k \in KlippyStates, pf \in HostFlagOptions }

HostInit ==
    /\ ScanInit
    /\ CallIdle
    /\ flagsIn = None
    /\ statusOut = ""
    /\ RangeIdle
    /\ MonitorIdle
    /\ BotIdle
    /\ ManagerIdle
    /\ \/ /\ host = Some(HostInfoNew("1", "voron", RangeA))
          /\ lastOp = "new"
       \/ /\ host \in { Some(h) : h \in ScanBuiltRecords }
          /\ lastOp = "scan_host"
    /\ failures = 0
    /\ prevFailures = 0
    /\ streakFrom = Unwrap(host).status

UpdateOnline(moonraker_version, klippy_state, printer_flags) ==
    /\ IsSome(host)
    /\ host' = Some(update_online(Unwrap(host), moonraker_version,
                                  klippy_state, printer_flags))
    /\ prevFailures' = FailedAttempts(Unwrap(host))
    /\ failures' = 0
    /\ streakFrom' = Unwrap(host').status
    /\ lastOp' = "update_online"
    /\ UNCHANGED << scanVars, callVars, resolverVars, rangeVars,
                    monitorVars, botVars, managerVars >>

UpdateOffline ==
    /\ IsSome(host)
    /\ failures < MaxFailures
    /\ host' = Some(update_offline(Unwrap(host)))
    /\ prevFailures' = FailedAttempts(Unwrap(host))
    /\ failures' = failures + 1
    /\ lastOp' = "update_offline"
    /\ UNCHANGED streakFrom
    /\ UNCHANGED << scanVars, callVars, resolverVars, rangeVars,
                    monitorVars, botVars, managerVars >>

HostNext ==
    \/ \E k \in KlippyStates, pf \in HostFlagOptions :
          UpdateOnline("v0.9.3", k, pf)
    \/ UpdateOffline

SpecHost == HostInit /\ [][HostNext]_vars

(***************************************************************************)
(* generate_ip_range (network/ip_utils.rs) run step by step on every CIDR  *)
(* string of the address space, well-formed or with a prefix too long.     *)
(***************************************************************************)
RangeInputs == { CidrString(a, p) : a \in Addr, p \in 0 .. (AddrBits + 1) }

RangeInit ==
    /\ ScanInit
    /\ CallIdle
    /\ flagsIn = None
    /\ statusOut = ""
    /\ HostIdle
    /\ MonitorIdle
    /\ BotIdle
    /\ ManagerIdle
    /\ rangeIn \in RangeInputs
    /\ rangeNet = None
    /\ rangeIdx = 0
    /\ rangeIps = << >>
    /\ rangeOut = None

(* IpNetwork::from_str(subnet), with `?` returning InvalidSubnet. *)
RangeParse ==
    /\ rangeIdx = 0
    /\ rangeOut = None
    /\ LET parsed == IpNetworkFromStr(rangeIn)
       IN IF IsSome(parsed)
          THEN /\ rangeNet' = parsed
               /\ rangeIdx' = 1
               /\ UNCHANGED rangeOut
          ELSE /\ rangeOut' = Some([ok |-> FALSE, err |-> "InvalidSubnet",
                                    ips |-> << >>])
               /\ UNCHANGED << rangeNet, rangeIdx >>
    /\ UNCHANGED << rangeIn, rangeIps >>
    /\ UNCHANGED << scanVars, callVars, resolverVars, hostVars,
                    monitorVars, botVars, managerVars >>

(* One turn of `for ip in network.iter()`. *)
RangeStep ==
    /\ IsSome(rangeNet)
    /\ rangeOut = None
    /\ rangeIdx \in 1 .. NetSize(Unwrap(rangeNet))
    /\ LET ip == NetworkIter(Unwrap(rangeNet))[rangeIdx]
       IN rangeIps' = IF KeepHost(Unwrap(rangeNet), ip)
                      THEN Append(rangeIps, IpString(ip))
                      ELSE rangeIps
    /\ rangeIdx' = rangeIdx + 1
    /\ UNCHANGED << rangeIn, rangeNet, rangeOut >>
    /\ UNCHANGED << scanVars, callVars, resolverVars, hostVars,
                    monitorVars, botVars, managerVars >>

(* Ok(ips) *)
RangeReturn ==
    /\ IsSome(rangeNet)
    /\ rangeOut = None
    /\ rangeIdx > NetSize(Unwrap(rangeNet))
    /\ rangeOut' = Some([ok |-> TRUE, err |-> "", ips |-> rangeIps])
    /\ UNCHANGED << rangeIn, rangeNet, rangeIdx, rangeIps >>
    /\ UNCHANGED << scanVars, callVars, resolverVars, hostVars,
                    monitorVars, botVars, managerVars >>

RangeNext == RangeParse \/ RangeStep \/ RangeReturn

SpecRange == RangeInit /\ [][RangeNext]_vars

(***************************************************************************)
(* BackgroundMonitorState (background_monitor.rs): start() spawns a task   *)
(* that checks the stored hosts and sleeps, in a loop guarded by a flag;   *)
(* stop() clears the state's flag.  Each task records, for the checks      *)
(* below, whether stop() was called while it ran, whether a sleep of it    *)
(* has ended since, and whether it began a cycle after that.               *)
(***************************************************************************)
StoredHosts == << "test1", "test2" >>

(* Arc::new(AtomicBool::new(true)) moved into the spawned future. *)
NewMonitor ==
    [is_running_arc |-> TRUE, pc |-> "spawned", host |-> 0, cycles |-> 0,
     stopSeen |-> "none", late |-> FALSE]

(* `while is_running_arc.load(Relaxed)`: another cycle, or the task ends. *)
LoopTest(m) ==
    IF m.is_running_arc
    THEN [m EXCEPT !.pc = "get_hosts", !.cycles = @ + 1,
                   !.late = @ \/ m.stopSeen = "elapsed"]
    ELSE [m EXCEPT !.pc = "stopped"]

MonitorInit ==
    /\ ScanInit
    /\ CallIdle
    /\ flagsIn = None
    /\ statusOut = ""
    /\ HostIdle
    /\ RangeIdle
    /\ MonitorIdle
    /\ BotIdle
    /\ ManagerIdle

(* start() up to the await on the task_handle lock. *)
Start ==
    /\ startPc = "idle"
    /\ Len(monitors) < MaxMonitors
    /\ IF is_running
       THEN UNCHANGED monitorVars
       ELSE /\ is_running' = TRUE
            /\ monitors' = Append(monitors, NewMonitor)
            /\ startPc' = "lock"
            /\ UNCHANGED task_handle
    /\ UNCHANGED << scanVars, callVars, resolverVars, hostVars, rangeVars,
                    botVars, managerVars >>

StartStoreHandle ==
    /\ startPc = "lock"
    /\ task_handle' = Some(Len(monitors))
    /\ startPc' = "idle"
    /\ UNCHANGED << is_running, monitors >>
    /\ UNCHANGED << scanVars, callVars, resolverVars, hostVars, rangeVars,
                    botVars, managerVars >>

Stop ==
    /\ is_running' = FALSE
    /\ monitors' = [i \in DOMAIN monitors |->
                      [monitors[i] EXCEPT !.stopSeen =
                         IF @ = "none" /\ monitors[i].pc /= "stopped"
                         THEN "grace" ELSE @]]
    /\ UNCHANGED << task_handle, startPc >>
    /\ UNCHANGED << scanVars, callVars, resolverVars, hostVars, rangeVars,
                    botVars, managerVars >>

(* The runtime polls the spawned future for the first time. *)
MonitorPoll(i) ==
    /\ monitors[i].pc = "spawned"
    /\ monitors' = [monitors EXCEPT ![i] = LoopTest(@)]
    /\ UNCHANGED << is_running, task_handle, startPc >>
    /\ UNCHANGED << scanVars, callVars, resolverVars, hostVars, rangeVars,
                    botVars, managerVars >>

MonitorGetHosts(i) ==
    /\ monitors[i].pc = "get_hosts"
    /\ monitors' = [monitors EXCEPT ![i] =
                      IF StoredHosts = << >>
                      THEN [@ EXCEPT !.pc = "sleep"]
                      ELSE [@ EXCEPT !.pc = "check", !.host = 1]]
    /\ UNCHANGED << is_running, task_handle, startPc >>
    /\ UNCHANGED << scanVars, callVars, resolverVars, hostVars, rangeVars,
                    botVars, managerVars >>

MonitorCheckHost(i) ==
    /\ monitors[i].pc = "check"
    /\ monitors' = [monitors EXCEPT ![i] =
                      IF @.host < Len(StoredHosts)
                      THEN [@ EXCEPT !.host = @ + 1]
                      ELSE [@ EXCEPT !.pc = "sleep", !.host = 0]]
    /\ UNCHANGED << is_running, task_handle, startPc >>
    /\ UNCHANGED << scanVars, callVars, resolverVars, hostVars, rangeVars,
                    botVars, managerVars >>

(* sleep(interval_seconds) is over: back to the loop test. *)
MonitorSleepElapsed(i) ==
    /\ monitors[i].pc = "sleep"
    /\ monitors[i].cycles < MaxCycles
    /\ monitors' = [monitors EXCEPT ![i] =
                      LoopTest([@ EXCEPT !.stopSeen =
                                  IF @ = "grace" THEN "elapsed" ELSE @])]
    /\ UNCHANGED << is_running, task_handle, startPc >>
    /\ UNCHANGED << scanVars, callVars, resolverVars, hostVars, rangeVars,
                    botVars, managerVars >>

MonitorNext ==
    \/ Start
    \/ StartStoreHandle
    \/ Stop
    \/ \E i \in DOMAIN monitors : MonitorPoll(i)
    \/ \E i \in DOMAIN monitors : MonitorGetHosts(i)
    \/ \E i \in DOMAIN monitors : MonitorCheckHost(i)
    \/ \E i \in DOMAIN monitors : MonitorSleepElapsed(i)

SpecMonitor == MonitorInit /\ [][MonitorNext]_vars

(***************************************************************************)
(* The Telegram bot (telegram/bot.rs) and its registration session         *)
(* (models/telegram.rs): the commands of the application, the two update   *)
(* handlers of the dispatcher and the notification the application sends.  *)
(* A handler reads registered_users when its update arrives and does the   *)
(* rest in a later step, so other handlers and commands run in between.    *)
(***************************************************************************)
MaxClock == 2
MaxHandlers == 2

(* Updates in flight at once where the handlers meet only remove_user. *)
MaxUpdates == 1

(* chrono::Duration::seconds(300), in ticks of the model's clock. *)
RegistrationTicks == 1

Users == {1, 2}

Codes == {"111111", "222222"}

(* The texts of the model that start with '/'. *)
CommandTexts == {"/start", "/menu"}

(* The addresses in HostCache.hosts after show_hosts_list filled it, and   *)
(* one that is not among them.                                             *)
host_cache == {"10.0.0.1"}

HostIds == {"10.0.0.1", "10.0.0.9"}

(* Callback data, split at the underscores of its prefix. *)
CallbackData ==
    {<< "main_menu" >>, << "host", "10.0.0.1" >>,
     << "host", "image", "10.0.0.1" >>,
     << "stop", "print", "confirm", "10.0.0.1" >>,
     << "firmware", "restart", "confirm", "10.0.0.1" >>}
    \cup {<< "emergency", "confirm", h >> : h \in HostIds}

StartsWith(data, prefix) ==
    /\ Len(data) >= Len(prefix)
    /\ SubSeq(data, 1, Len(prefix)) = prefix

(* RegistrationState::start_registration with the code the generator drew. *)
start_registration(self, code, t) ==
    [self EXCEPT !.is_active = TRUE,
                 !.code = Some(code),
                 !.expires_at = Some(t + RegistrationTicks),
                 !.attempts = 0]

(* RegistrationState::is_expired at time t. *)
is_expired(self, t) ==
    IF IsSome(self.expires_at) THEN t > Unwrap(self.expires_at) ELSE FALSE

(* verify_code that counts no wrong code. *)
verify_code_counts_nothing(self, input_code, t) ==
    IF ~self.is_active \/ is_expired(self, t)
    THEN [ok |-> FALSE, self |-> self]
    ELSE IF self.attempts >= self.max_attempts
    THEN [ok |-> FALSE, self |-> self]
    ELSE IF IsSome(self.code)
    THEN [ok |-> Unwrap(self.code) = input_code, self |-> self]
    ELSE [ok |-> FALSE, self |-> self]

(* RegistrationState::verify_code: the value returned and self afterwards. *)
verify_code(self, input_code, t) ==
    IF ~self.is_active \/ is_expired(self, t)
    THEN [ok |-> FALSE, self |-> self]
    ELSE IF self.attempts >= self.max_attempts
    THEN [ok |-> FALSE, self |-> self]
    ELSE IF IsSome(self.code)
    THEN IF Unwrap(self.code) = input_code
         THEN [ok |-> TRUE, self |-> self]
         ELSE [ok |-> FALSE, self |-> [self EXCEPT !.attempts = @ + 1]]
    ELSE [ok |-> FALSE, self |-> self]

(* RegistrationState::finish_registration *)
finish_registration(self) ==
    [self EXCEPT !.is_active = FALSE, !.code = None, !.expires_at = None,
                 !.attempts = 0]

(* TelegramBot::is_registration_active *)
is_registration_active(self, t) == self.is_active /\ ~is_expired(self, t)

(* `users.iter().any(|user| user.user_id == user_id)` *)
IsRegistered(users, u) == \E i \in DOMAIN users : users[i] = u

NewHandler(kind, u, payload) ==
    [kind |-> kind, user |-> u, payload |-> payload,
     is_registered |-> IsRegistered(registered_users, u)]

(* message_handler that leaves the session open after a registration. *)
message_handler_keeps_session(h, reg, users, t) ==
    IF h.payload \in CommandTexts
    THEN [reg |-> reg, users |-> users,
          effects |-> IF h.is_registered THEN {"reply"} ELSE {}]
    ELSE IF ~h.is_registered
    THEN IF reg.is_active /\ ~is_expired(reg, t)
         THEN LET v == verify_code(reg, h.payload, t)
              IN IF v.ok
                 THEN [reg |-> v.self, users |-> Append(users, h.user),
                       effects |-> {"reply"}]
                 ELSE IF v.self.attempts >= v.self.max_attempts
                 THEN [reg |-> finish_registration(v.self), users |-> users,
                       effects |-> {"reply"}]
                 ELSE [reg |-> v.self, users |-> users, effects |-> {"reply"}]
         ELSE [reg |-> reg, users |-> users, effects |-> {}]
    ELSE [reg |-> reg, users |-> users, effects |-> {"reply"}]

(* message_handler after the read of registered_users: the session and    *)
(* the users it leaves and what it sent.                                   *)
message_handler(h, reg, users, t) ==
    IF h.payload \in CommandTexts
    THEN [reg |-> reg, users |-> users,
          effects |-> IF h.is_registered THEN {"reply"} ELSE {}]
    ELSE IF ~h.is_registered
    THEN IF reg.is_active /\ ~is_expired(reg, t)
         THEN LET v == verify_code(reg, h.payload, t)
              IN IF v.ok
                 THEN [reg |-> finish_registration(v.self),
                       users |-> Append(users, h.user),
                       effects |-> {"reply"}]
                 ELSE IF v.self.attempts >= v.self.max_attempts
                 THEN [reg |-> finish_registration(v.self), users |-> users,
                       effects |-> {"reply"}]
                 ELSE [reg |-> v.self, users |-> users, effects |-> {"reply"}]
         ELSE [reg |-> reg, users |-> users, effects |-> {}]
    ELSE [reg |-> reg, users |-> users, effects |-> {"reply"}]

(* execute_emergency_stop, execute_stop_print, execute_firmware_restart    *)
(* and get_host_image: the request goes to a host found in the cache.      *)
ExecuteOnHost(request, host_id) ==
    IF host_id \in host_cache THEN {"reply", request} ELSE {"reply"}

(* The match on the callback data, its arms in the order of the code. *)
DispatchCallback(data) ==
    IF data = << "main_menu" >> THEN {"reply"}
    ELSE IF StartsWith(data, << "host", "image" >>)
    THEN ExecuteOnHost("webcam", data[Len(data)])
    ELSE IF StartsWith(data, << "host", "emergency" >>) THEN {"reply"}
    ELSE IF StartsWith(data, << "host", "stop", "print" >>) THEN {"reply"}
    ELSE IF StartsWith(data, << "host", "firmware", "restart" >>) THEN {"reply"}
    ELSE IF StartsWith(data, << "host" >>) THEN {"reply"}
    ELSE IF StartsWith(data, << "emergency", "confirm" >>)
    THEN ExecuteOnHost("emergency_stop", data[Len(data)])
    ELSE IF StartsWith(data, << "stop", "print", "confirm" >>)
    THEN ExecuteOnHost("stop_print", data[Len(data)])
    ELSE IF StartsWith(data, << "firmware", "restart", "confirm" >>)
    THEN ExecuteOnHost("firmware_restart", data[Len(data)])
    ELSE {"reply"}

(* callback_handler that dispatches without looking at is_registered. *)
callback_handler_open(h) == DispatchCallback(h.payload)

(* callback_handler after the read of registered_users: what it sent. *)
callback_handler(h) ==
    IF ~h.is_registered THEN {} ELSE DispatchCallback(h.payload)

Remove(seq, i) == SubSeq(seq, 1, i - 1) \o SubSeq(seq, i + 1, Len(seq))

BotInit ==
    /\ ScanInit
    /\ CallIdle
    /\ flagsIn = None
    /\ statusOut = ""
    /\ HostIdle
    /\ RangeIdle
    /\ MonitorIdle
    /\ BotIdle
    /\ ManagerIdle

BotOthers ==
    << scanVars, callVars, resolverVars, hostVars, rangeVars, monitorVars,
       managerVars >>

(* TelegramBot::start_registration *)
StartRegistration(code) ==
    /\ lastStart' = Some([active |-> is_registration_active(reg_state, clock),
                          result |-> IF reg_state.is_active
                                     THEN [ok |-> FALSE, val |-> Some(
                                             "Registration is already active")]
                                     ELSE Ok(code)])
    /\ IF reg_state.is_active
       THEN UNCHANGED << reg_state, addedInSession, wrongCodes >>
       ELSE /\ reg_state' = start_registration(reg_state, code, clock)
            /\ addedInSession' = 0
            /\ wrongCodes' = 0
    /\ UNCHANGED << clock, registered_users, handlers, lastRun, BotOthers >>

(* TelegramBot::stop_registration *)
StopRegistration ==
    /\ reg_state.is_active
    /\ reg_state' = finish_registration(reg_state)
    /\ UNCHANGED << clock, registered_users, handlers,
                    addedInSession, wrongCodes, lastStart, lastRun,
                    BotOthers >>

(* TelegramBot::remove_user *)
RemoveUser(u) ==
    /\ IsRegistered(registered_users, u)
    /\ registered_users' = SelectSeq(registered_users, LAMBDA x : x /= u)
    /\ UNCHANGED << reg_state, clock, handlers, addedInSession,
                    wrongCodes, lastStart, lastRun, BotOthers >>

(* A second passes. *)
Tick ==
    /\ clock < MaxClock
    /\ clock' = clock + 1
    /\ UNCHANGED << reg_state, registered_users, handlers,
                    addedInSession, wrongCodes, lastStart, lastRun,
                    BotOthers >>

(* The dispatcher starts message_handler, which reads registered_users. *)
MessageArrives(u, text) ==
    /\ Len(handlers) < MaxHandlers
    /\ handlers' = Append(handlers, NewHandler("message", u, text))
    /\ UNCHANGED << reg_state, clock, registered_users,
                    addedInSession, wrongCodes, lastStart, lastRun,
                    BotOthers >>

(* The dispatcher starts callback_handler, which reads registered_users. *)
CallbackArrives(u, data) ==
    /\ Len(handlers) < MaxHandlers
    /\ handlers' = Append(handlers, NewHandler("callback", u, data))
    /\ UNCHANGED << reg_state, clock, registered_users,
                    addedInSession, wrongCodes, lastStart, lastRun,
                    BotOthers >>

(* What the last run leaves for the properties to look at: the handler,   *)
(* the session it met, what it sent and whether it pushed a user.          *)
RunRecord(h, effects, added) ==
    [kind |-> h.kind,
     user |-> h.user,
     payload |-> h.payload,
     is_registered |-> h.is_registered,
     matches |-> h.kind = "message" /\ reg_state.code = Some(h.payload),
     live |-> is_registration_active(reg_state, clock),
     below |-> reg_state.attempts < reg_state.max_attempts,
     locked |-> wrongCodes >= reg_state.max_attempts,
     effects |-> effects,
     added |-> added]

(* A text that message_handler hands to verify_code and that is not the   *)
(* code of the session.                                                    *)
IsWrongCode(h) ==
    /\ h.payload \notin CommandTexts
    /\ ~h.is_registered
    /\ is_registration_active(reg_state, clock)
    /\ reg_state.code /= Some(h.payload)

(* message_handler from the lock of the registration state to its end. *)
RunMessage(i) ==
    /\ i \in DOMAIN handlers
    /\ handlers[i].kind = "message"
    /\ LET h == handlers[i]
           r == message_handler(h, reg_state, registered_users, clock)
           added == Len(r.users) > Len(registered_users)
       IN /\ reg_state' = r.reg
          /\ registered_users' = r.users
          /\ addedInSession' = IF added THEN addedInSession + 1
                               ELSE addedInSession
          /\ wrongCodes' = IF IsWrongCode(h) THEN wrongCodes + 1
                           ELSE wrongCodes
          /\ lastRun' = Some(RunRecord(h, r.effects, added))
    /\ handlers' = Remove(handlers, i)
    /\ UNCHANGED << clock, lastStart, BotOthers >>

(* callback_handler from the test of is_registered to its end. *)
RunCallback(i) ==
    /\ i \in DOMAIN handlers
    /\ handlers[i].kind = "callback"
    /\ lastRun' = Some(RunRecord(handlers[i], callback_handler(handlers[i]),
                                 FALSE))
    /\ handlers' = Remove(handlers, i)
    /\ UNCHANGED << reg_state, clock, registered_users,
                    addedInSession, wrongCodes, lastStart, BotOthers >>

(* TelegramBot::send_notification_to_all_users *)
SendNotification(host_ip) ==
    /\ lastRun' = Some(RunRecord(
                     [kind |-> "notification", user |-> 0,
                      payload |-> IF IsSome(host_ip) THEN "host" ELSE "",
                      is_registered |-> FALSE],
                     IF registered_users = << >> THEN {}
                     ELSE IF IsSome(host_ip) THEN {"webcam", "notify"}
                     ELSE {"notify"},
                     FALSE))
    /\ UNCHANGED << reg_state, clock, registered_users, handlers,
                    addedInSession, wrongCodes, lastStart, BotOthers >>

(* The registration session under the messages of two users. *)
BotNext ==
    \/ \E code \in Codes : StartRegistration(code)
    \/ StopRegistration
    \/ Tick
    \/ \E u \in Users, text \in Codes : MessageArrives(u, text)
    \/ \E i \in 1 .. MaxHandlers : RunMessage(i)

SpecBot == BotInit /\ [][BotNext]_vars

(* TelegramBot::new() when load_users_from_file finds user 1 in the       *)
(* settings.                                                               *)
AccessInit ==
    /\ ScanInit
    /\ CallIdle
    /\ flagsIn = None
    /\ statusOut = ""
    /\ HostIdle
    /\ RangeIdle
    /\ MonitorIdle
    /\ ManagerIdle
    /\ reg_state = NewRegistrationState
    /\ clock = 0
    /\ registered_users = << 1 >>
    /\ handlers = << >>
    /\ addedInSession = 0
    /\ wrongCodes = 0
    /\ lastStart = None
    /\ lastRun = None

(* Everything the bot sends: callbacks, commands, texts and notifications, *)
(* with one registration code.                                             *)
AccessNext ==
    \/ StartRegistration("111111")
    \/ \E u \in Users : RemoveUser(u)
    \/ /\ Len(handlers) < MaxUpdates
       /\ \E u \in Users, text \in {"111111"} \cup CommandTexts :
             MessageArrives(u, text)
    \/ /\ Len(handlers) < MaxUpdates
       /\ \E u \in Users, data \in CallbackData : CallbackArrives(u, data)
    \/ \E i \in 1 .. MaxHandlers : RunMessage(i)
    \/ \E i \in 1 .. MaxHandlers : RunCallback(i)
    \/ \E ip \in {None, Some("10.0.0.1")} : SendNotification(ip)

SpecAccess == AccessInit /\ [][AccessNext]_vars

(***************************************************************************)
(* TelegramBotManager (telegram_bot.rs): one caller at a time invoking     *)
(* update_config, start and stop.  The guard of the config mutex is held   *)
(* from the lock() that returned it to the end of the function that took   *)
(* it.                                                                     *)
(***************************************************************************)
BotTokens == {"", "A", "B"}

BotConfigs == [bot_token : BotTokens, enabled : BOOLEAN]

ManagerInit ==
    /\ ScanInit
    /\ CallIdle
    /\ flagsIn = None
    /\ statusOut = ""
    /\ HostIdle
    /\ RangeIdle
    /\ MonitorIdle
    /\ BotIdle
    /\ ManagerIdle

ManagerOthers ==
    << scanVars, callVars, resolverVars, hostVars, rangeVars, monitorVars,
       botVars >>

(* No call of the manager is running. *)
ManagerFree == managerPc \in {"idle", "returned"}

(* update_config, lines 29-30: the guard is taken and the configuration   *)
(* behind it overwritten.                                                  *)
UpdateConfigLock(cfg) ==
    /\ ManagerFree
    /\ configLock = "free"
    /\ configLock' = "update_config"
    /\ config' = cfg
    /\ managerCall' = "update_config"
    /\ managerPc' = "update_stop"
    /\ updateArg' = Some(cfg)
    /\ prevConfig' = Some(config)
    /\ wasRunning' = manager_running
    /\ stoppedBot' = FALSE
    /\ UNCHANGED << manager_running, ManagerOthers >>

(* update_config, lines 33-37, with the stop() it calls. *)
UpdateConfigStop ==
    /\ managerPc = "update_stop"
    /\ IF /\ manager_running
          /\ \/ ~Unwrap(updateArg).enabled
             \/ Unwrap(updateArg).bot_token /= config.bot_token
       THEN /\ manager_running' = FALSE
            /\ stoppedBot' = TRUE
       ELSE UNCHANGED << manager_running, stoppedBot >>
    /\ managerPc' = "update_start"
    /\ UNCHANGED << config, configLock, managerCall, updateArg, prevConfig,
                    wasRunning, ManagerOthers >>

(* update_config, lines 40-44: start() is awaited with the guard held, or *)
(* the function returns and drops the guard.                               *)
UpdateConfigStart ==
    /\ managerPc = "update_start"
    /\ IF /\ Unwrap(updateArg).enabled
          /\ Unwrap(updateArg).bot_token /= ""
          /\ ~manager_running
       THEN /\ managerPc' = "start_lock"
            /\ UNCHANGED configLock
       ELSE /\ managerPc' = "returned"
            /\ configLock' = "free"
    /\ UNCHANGED << config, manager_running, managerCall, updateArg,
                    prevConfig, wasRunning, stoppedBot, ManagerOthers >>

(* The application calls start(), which awaits the config mutex. *)
ManagerStart ==
    /\ ManagerFree
    /\ managerCall' = "start"
    /\ managerPc' = "start_lock"
    /\ UNCHANGED << config, manager_running, configLock, updateArg,
                    prevConfig, wasRunning, stoppedBot, ManagerOthers >>

(* start() from the moment the mutex is free to its return. *)
StartBody ==
    /\ managerPc = "start_lock"
    /\ configLock = "free"
    /\ manager_running' =
          IF config.bot_token = "" \/ ~config.enabled THEN manager_running
          ELSE TRUE
    /\ managerPc' = "returned"
    /\ UNCHANGED << config, configLock, managerCall, updateArg, prevConfig,
                    wasRunning, stoppedBot, ManagerOthers >>

(* The application calls stop(). *)
ManagerStop ==
    /\ ManagerFree
    /\ manager_running' = FALSE
    /\ managerCall' = "stop"
    /\ managerPc' = "returned"
    /\ UNCHANGED << config, configLock, updateArg, prevConfig, wasRunning,
                    stoppedBot, ManagerOthers >>

ManagerNext ==
    \/ \E cfg \in BotConfigs : UpdateConfigLock(cfg)
    \/ UpdateConfigStop
    \/ UpdateConfigStart
    \/ ManagerStart
    \/ StartBody
    \/ ManagerStop

SpecManager == ManagerInit /\ [][ManagerNext]_vars

(***************************************************************************)
(* One single-host call (get_host_info_command or                          *)
(* check_host_status_command) with every connect and every /server/info    *)
(* request it makes written to the log.                                    *)
(***************************************************************************)
CallDevices == [klippy_state : KlippyStates, flags : {DefaultFlags, PrintingFlags}]

LoggedConnectOk ==
    /\ scanPc = "call"
    /\ ConnectOk(1)
    /\ probeLog' = Append(probeLog, << tasks[1].timeout_ms, TRUE >>)
    /\ liveRequests' = liveRequests + 1
    /\ UNCHANGED liveFailures

LoggedConnectFail(cause) ==
    /\ scanPc = "call"
    /\ ConnectFail(1, cause)
    /\ probeLog' = Append(probeLog, << tasks[1].timeout_ms, FALSE >>)
    /\ UNCHANGED << liveRequests, liveFailures >>

LoggedServerInfoResponse(response) ==
    /\ scanPc = "call"
    /\ ServerInfoResponse(1, response)
    /\ liveFailures' = IF check_moonraker_api(response).ok THEN liveFailures
                        ELSE liveFailures + 1
    /\ UNCHANGED << probeLog, liveRequests >>

LoggedRetryWake ==
    /\ scanPc = "call"
    /\ RetryWake(1)
    /\ liveRequests' = liveRequests + 1
    /\ UNCHANGED << probeLog, liveFailures >>

CallNext ==
    \/ /\ scanPc = "idle"
       /\ \E kind \in {"scan_host", "check"}, ip \in CallAddresses,
             dev \in CallDevices : SingleHostCall(kind, ip, dev)
    \/ LoggedConnectOk
    \/ \E cause \in ConnectFailures : LoggedConnectFail(cause)
    \/ \E r \in ServerInfoAnswers : LoggedServerInfoResponse(r)
    \/ LoggedRetryWake
    \/ /\ scanPc = "call"
       /\ \E r \in PrinterInfoAnswers : PrinterInfoResponse(1, r)
       /\ UNCHANGED logVars
    \/ /\ scanPc = "call"
       /\ \E r \in FlagsAnswers : PrinterFlagsResponse(1, r)
       /\ UNCHANGED logVars

SpecCall == Init /\ [][CallNext]_vars

(***************************************************************************)
(* Properties.                                                             *)
(***************************************************************************)
InScan ==
    scanPc \in {"phase1", "phase1_pause", "phase2", "phase2_pause", "done"}

InFlight(phase) == { x \in started : x[1] = phase } \ finished

OpenSockets ==
    Cardinality({ i \in DOMAIN tasks :
        tasks[i].pc \in {"connect", "server_info", "printer_info",
                         "printer_flags"} })

Ceiling(phase) ==
    IF phase = 1 THEN PORT_SCAN_CONCURRENCY ELSE API_SCAN_CONCURRENCY

BatchOf(phase, i) == (i - 1) \div Ceiling(phase)

(* The host addresses of a CIDR string: inside the network, neither its   *)
(* first nor its last address.                                            *)
RangeHosts(range) ==
    LET parsed == IpNetworkFromStr(range)
    IN IF ~IsSome(parsed) THEN {}
       ELSE LET n == Unwrap(parsed)
                inside == { a \in Addr :
                    a \div Pow2(AddrBits - n.prefix) =
                    n.addr \div Pow2(AddrBits - n.prefix) }
            IN { IpString(a) : a \in { b \in inside :
                    \E lo, hi \in inside : lo < b /\ b < hi } }

(* Both tabulated over the ranges a scan can be given. *)
HostsOfRange == [range \in ScanRanges |-> RangeHosts(range)]

ValidRange == [range \in ScanRanges |-> IsSome(IpNetworkFromStr(range))]

EnabledHosts ==
    UNION { HostsOfRange[enabled_subnets[k].range] :
            k \in { j \in DOMAIN enabled_subnets : enabled_subnets[j].enabled } }

RECURSIVE SumHosts(_)
SumHosts(k) ==
    IF k = 0 THEN 0
    ELSE SumHosts(k - 1) + Cardinality(HostsOfRange[enabled_subnets[k].range])

Unprobed(ip) == lastProbe[ip] = "none" /\ ip \notin apiRequested

CallDone(kind) ==
    scanPc = "call" /\ tasks[1].kind = kind /\ tasks[1].pc = "done"

(* C1: for every combination of the ten flags get_status returns the      *)
(* first matching label in the order cancelling, error, paused, printing, *)
(* and standby when none of the four is set.                              *)
C1_StatusPriority ==
    statusOut /= "" =>
      LET f == Unwrap(flagsIn)
      IN /\ f.cancelling => statusOut = "cancelling"
         /\ (~f.cancelling /\ f.error) => statusOut = "error"
         /\ (~f.cancelling /\ ~f.error /\ f.paused) => statusOut = "paused"
         /\ (~f.cancelling /\ ~f.error /\ ~f.paused /\ f.printing)
               => statusOut = "printing"
         /\ (~f.cancelling /\ ~f.error /\ ~f.paused /\ ~f.printing)
               => statusOut = "standby"

C1_Witness ==
    /\ statusOut = "cancelling"
    /\ Unwrap(flagsIn).error
    /\ Unwrap(flagsIn).printing

(* C2: check_host_status answers offline (success false, printer_state    *)
(* "offline") whenever /server/info succeeded and Klippy is disconnected, *)
(* whatever flags the host would report.                                  *)
C2_DisconnectedIsOffline ==
    CallDone("check") =>
      LET resp == Unwrap(tasks[1].result)
      IN (IsSome(resp.klippy_state)
          /\ (resp.klippy_state = Some("disconnected")
              \/ Unwrap(device).klippy_state = "disconnected"))
         => /\ resp.status = "offline"
            /\ resp.success = FALSE
            /\ resp.printer_state = Some("offline")

C2_Witness ==
    /\ CallDone("check")
    /\ Unwrap(device).flags.printing
    /\ Unwrap(tasks[1].result).klippy_state = Some("disconnected")
    /\ Unwrap(tasks[1].result).moonraker_version = Some("v0.9.3")
    /\ Unwrap(tasks[1].result).status = "offline"

(* C3: a host whose /server/info reports Klippy disconnected is never     *)
(* returned by a full scan as online or with a device status other than   *)
(* "offline".                                                             *)
C3_ScanDisconnectedIsOffline ==
    /\ \A k \in DOMAIN scanResult.hosts :
          scanResult.hosts[k].klippy_state = Some("disconnected")
          => /\ scanResult.hosts[k].status /= "online"
             /\ scanResult.hosts[k].device_status = "offline"
    /\ (CallDone("scan_host") /\ IsSome(tasks[1].result))
          => (Unwrap(tasks[1].result).klippy_state = Some("disconnected")
              => /\ Unwrap(tasks[1].result).status /= "online"
                 /\ Unwrap(tasks[1].result).device_status = "offline")

(* C4: an address whose port probe failed gets no HTTP request: neither   *)
(* one whose latest probe returned false nor one recorded closed by       *)
(* phase 1.                                                               *)
C4_NoApiAfterFailedProbe ==
    \A ip \in DOMAIN lastProbe :
       (\/ lastProbe[ip] = "closed"
        \/ (ip \in DOMAIN port_scan_results /\ ~port_scan_results[ip]))
       => ip \notin apiRequested

C4_Witness ==
    /\ scanPc = "done"
    /\ apiRequested /= {}
    /\ \E ip \in DOMAIN port_scan_results : ~port_scan_results[ip]
    /\ \E ip \in DOMAIN port_scan_results :
          port_scan_results[ip] /\ lastProbe[ip] = "closed"

(* C5: in phase 1 never more than PORT_SCAN_CONCURRENCY port probes are   *)
(* in flight.                                                             *)
C5_PortCeiling ==
    scanPc \in {"phase1", "phase1_pause"}
    => Cardinality(InFlight(1)) <= PORT_SCAN_CONCURRENCY

C5_Witness ==
    /\ scanPc = "phase1"
    /\ Len(all_ips) > PORT_SCAN_CONCURRENCY
    /\ offset > 0
    /\ Cardinality(InFlight(1)) = PORT_SCAN_CONCURRENCY

(* C6: in phase 2 never more than API_SCAN_CONCURRENCY scan_host futures  *)
(* are in flight and no phase-1 probe is; the open sockets stay within    *)
(* the ceiling of the running phase.                                      *)
C6_ApiCeiling ==
    /\ scanPc \in {"phase2", "phase2_pause"}
       => /\ Cardinality(InFlight(2)) <= API_SCAN_CONCURRENCY
          /\ InFlight(1) = {}
          /\ OpenSockets <= API_SCAN_CONCURRENCY
    /\ scanPc \in {"phase1", "phase1_pause"}
       => /\ InFlight(2) = {}
          /\ OpenSockets <= PORT_SCAN_CONCURRENCY

C6_Witness ==
    /\ scanPc = "phase2"
    /\ Len(hosts_with_open_port) > API_SCAN_CONCURRENCY
    /\ OpenSockets = API_SCAN_CONCURRENCY
    /\ \E i \in DOMAIN tasks : tasks[i].pc = "printer_flags"

(* C7: no API request is issued and no scan_host future is started before *)
(* every port probe of phase 1 has completed.                             *)
C7_PhasesSequential ==
    (InScan /\ (apiRequested /= {} \/ \E x \in started : x[1] = 2))
    => \A i \in DOMAIN all_ips :
          << 1, i >> \in finished /\ << 1, i >> \in collected

C7_Witness ==
    /\ scanPc = "phase2"
    /\ Len(all_ips) > PORT_SCAN_CONCURRENCY
    /\ apiRequested /= {}

(* C8: a probe of a later batch is started only after every probe of the  *)
(* earlier batches of its phase has finished and been collected.          *)
C8_BatchesInOrder ==
    InScan =>
      \A x \in started : \A j \in 1 .. x[2] :
         BatchOf(x[1], j) < BatchOf(x[1], x[2])
         => << x[1], j >> \in finished /\ << x[1], j >> \in collected

C8_Witness ==
    /\ scanPc = "phase2"
    /\ offset > 0
    /\ \E i \in DOMAIN tasks : tasks[i].pc = "server_info"
    /\ \E x \in started : x[1] = 1 /\ BatchOf(1, x[2]) > 0

(* C9: an invalid CIDR among the enabled subnets fails the scan with      *)
(* InvalidSubnet before any probe or request, valid subnets or not.       *)
C9_InvalidSubnetAborts ==
    (\E k \in DOMAIN enabled_subnets : ~ValidRange[enabled_subnets[k].range])
    => /\ scanPc = "done"
       /\ scanResult.ok = FALSE
       /\ scanResult.err = "InvalidSubnet"
       /\ started = {}
       /\ \A ip \in DOMAIN lastProbe : Unprobed(ip)

C9_Witness ==
    /\ scanPc = "done"
    /\ scanResult.err = "InvalidSubnet"
    /\ Len(enabled_subnets) = 2
    /\ enabled_subnets[1].range = RangeA
    /\ enabled_subnets[2].range = RangeBad

(* C10: only enabled subnets take part: an address of disabled subnets    *)
(* only is neither probed nor counted, a disabled invalid CIDR does not   *)
(* fail the scan, and without enabled subnets the result is the empty     *)
(* Ok result without any probe.                                           *)
C10_OnlyEnabledSubnets ==
    InScan =>
      /\ \A ip \in IpStrings \ EnabledHosts :
            /\ Unprobed(ip)
            /\ \A i \in DOMAIN all_ips : all_ips[i] /= ip
      /\ (scanPc = "done" /\ scanResult.ok)
            => scanResult.total_hosts = SumHosts(Len(enabled_subnets))
      /\ (scanPc = "done"
          /\ \A k \in DOMAIN enabled_subnets :
                enabled_subnets[k].enabled
                /\ ValidRange[enabled_subnets[k].range])
            => scanResult.ok
      /\ (scanPc = "done" /\ \A k \in DOMAIN enabled_subnets :
                                 ~enabled_subnets[k].enabled)
            => /\ scanResult = OkResult(<< >>, 0, 0)
               /\ started = {}
               /\ \A ip \in DOMAIN lastProbe : Unprobed(ip)

C10_Witness ==
    /\ scanPc = "done"
    /\ scanResult.ok
    /\ RangeBad \in disabled_ranges
    /\ scanResult.total_hosts = 2
    /\ scanResult.online_hosts > 0

(* A candidate address the scan found online: phase 1 recorded its port   *)
(* open, the probe inside scan_host succeeded and /server/info was Ok.    *)
Succeeded(ip) ==
    /\ ip \in DOMAIN port_scan_results
    /\ port_scan_results[ip]
    /\ lastProbe[ip] = "open"
    /\ ip \in liveOk

ScanReturnedOk == scanPc = "done" /\ scanResult.ok

ResultAddresses ==
    { scanResult.hosts[k].ip_address : k \in DOMAIN scanResult.hosts }

(* C11: a scan that returned Ok reports as total_hosts the number of      *)
(* candidate addresses the expansion produced and as online_hosts the     *)
(* number of those candidates whose port probe and liveness probe         *)
(* succeeded.                                                             *)
C11_TotalAndOnlineCounts ==
    ScanReturnedOk =>
       /\ scanResult.total_hosts = Len(all_ips)
       /\ scanResult.online_hosts =
             Cardinality({ k \in DOMAIN all_ips : Succeeded(all_ips[k]) })

(* C12: with every enabled CIDR valid the scan returns Ok with            *)
(* scan_progress 100 whatever the probes did; it returns nothing before   *)
(* its last batch, and the hosts returned are exactly the candidates      *)
(* whose own probes succeeded.                                            *)
C12_HostFailureNeverAborts ==
    /\ scanPc \in {"phase1", "phase1_pause", "phase2", "phase2_pause"}
          => scanResult = NoResult
    /\ (scanPc = "done"
        /\ \A k \in DOMAIN enabled_subnets :
              ValidRange[enabled_subnets[k].range])
          => /\ scanResult.ok
             /\ scanResult.scan_progress = 100
             /\ ResultAddresses =
                   { all_ips[k] : k \in { j \in DOMAIN all_ips :
                                             Succeeded(all_ips[j]) } }

C12_Witness ==
    /\ ScanReturnedOk
    /\ scanResult.scan_progress = 100
    /\ Len(hosts_with_open_port) >= 2
    /\ ~Succeeded(hosts_with_open_port[1])
    /\ Succeeded(hosts_with_open_port[2])
    /\ \E ip \in DOMAIN port_scan_results : ~port_scan_results[ip]

HostRecord == Unwrap(host)

(* C13: from an online record with failure counter 0, one or two          *)
(* consecutive update_offline calls leave the status as it was and the    *)
(* third makes it "offline".                                              *)
C13_OfflineOnThirdFailure ==
    (IsSome(host) /\ streakFrom = "online") =>
       /\ failures \in {1, 2} => HostRecord.status = "online"
       /\ failures >= 3 => HostRecord.status = "offline"
       /\ (failures = 3 /\ lastOp = "update_offline")
             => /\ prevFailures = 2
                /\ HostRecord.failed_attempts = Some(3)

C13_Witness ==
    /\ IsSome(host)
    /\ streakFrom = "online"
    /\ failures = 3
    /\ lastOp = "update_offline"
    /\ HostRecord.status = "offline"
    /\ HostRecord.failed_attempts = Some(3)

(* C14: update_online sets the failure counter to 0 and the status to     *)
(* "online" whatever the counter was, and the counter always equals the   *)
(* number of update_offline calls since the last update_online or since   *)
(* the record was built.                                                  *)
C14_OnlineResetsCounter ==
    IsSome(host) =>
       /\ HostRecord.failed_attempts = Some(failures)
       /\ lastOp = "update_online"
             => /\ HostRecord.failed_attempts = Some(0)
                /\ HostRecord.status = "online"

C14_Witness ==
    /\ IsSome(host)
    /\ lastOp = "update_online"
    /\ prevFailures = MaxFailures
    /\ HostRecord.failed_attempts = Some(0)
    /\ HostRecord.status = "online"

(* C15: a record whose status is "offline" has device status "offline",   *)
(* whatever flags it retains.                                             *)
C15_OfflineMeansDeviceOffline ==
    IsSome(host) =>
       (HostRecord.status = "offline" => HostRecord.device_status = "offline")

RangeReturnedOk == IsSome(rangeOut) /\ Unwrap(rangeOut).ok

(* The addresses strictly between the network and the broadcast address,  *)
(* ascending.                                                             *)
InnerAddresses(net) ==
    [i \in 1 .. (Broadcast(net) - Network(net) - 1) |->
        IpString(Network(net) + i)]

(* C16 as stated: the result is the network's addresses in order without  *)
(* the network and the broadcast address, and its length is the subnet    *)
(* size minus 2 for every prefix length.                                  *)
C16_RangeLengthAsStated ==
    RangeReturnedOk =>
       /\ Unwrap(rangeOut).ips = InnerAddresses(Unwrap(rangeNet))
       /\ Len(Unwrap(rangeOut).ips) = NetSize(Unwrap(rangeNet)) - 2

(* C16: the result is the network's addresses in order without the        *)
(* network and the broadcast address; its length is the subnet size minus *)
(* 2 when the subnet has at least two addresses, and 0 for the one-address *)
(* subnet, whose only address is both network and broadcast address.      *)
C16_RangeLength ==
    RangeReturnedOk =>
       /\ Unwrap(rangeOut).ips = InnerAddresses(Unwrap(rangeNet))
       /\ Len(Unwrap(rangeOut).ips) =
             IF NetSize(Unwrap(rangeNet)) >= 2
             THEN NetSize(Unwrap(rangeNet)) - 2 ELSE 0
       /\ rangeOut = Some(generate_ip_range(rangeIn))

C16_Witness ==
    /\ RangeReturnedOk
    /\ Unwrap(rangeNet).prefix = AddrBits
    /\ Unwrap(rangeOut).ips = << >>

(* C17: the port probe always returns a boolean: a timed-out or refused   *)
(* connect and an address that is no socket address give false (and the   *)
(* caller's failure value, without any API request), and for such an      *)
(* address no connect is ever attempted.                                  *)
C17_ProbeNeverRaises ==
    scanPc = "call" =>
       /\ tasks[1].ip \notin IpStrings
             => /\ tasks[1].pc = "done"
                /\ callProbe = "malformed"
       /\ (tasks[1].pc = "done"
           /\ callProbe \in ConnectFailures \cup {"malformed"})
             => /\ tasks[1].open = FALSE
                /\ lastProbe[tasks[1].ip] = "closed"
                /\ tasks[1].ip \notin apiRequested
                /\ tasks[1].result = IF tasks[1].kind = "check"
                                      THEN Some(OfflineResponse) ELSE None

C17_Witness ==
    /\ CallDone("scan_host")
    /\ tasks[1].ip \in Listeners
    /\ callProbe = "timeout"
    /\ tasks[1].open = FALSE
    /\ tasks[1].result = None

(* C18: a future awaiting the /server/info response goes on in the same   *)
(* way when the response is a 2xx body that does not parse as server info *)
(* as when the request fails.                                             *)
C18_ParseFailureIsNetworkFailure ==
    \A i \in DOMAIN tasks :
       tasks[i].pc = "server_info"
       => TaskServerInfo(tasks[i], Garbage) = TaskServerInfo(tasks[i], HttpFail)

(* C19: a scan_host or check_host_status future that got server info with *)
(* Klippy not disconnected and whose flags request fails resolves to an   *)
(* online host with device status "standby" and no flag set.              *)
C19_FlagsFailureIsStandby ==
    \A i \in DOMAIN tasks :
       (tasks[i].pc = "printer_flags"
        /\ ~KlippyDisconnected(Unwrap(tasks[i].server)))
       => LET out == Unwrap(TaskPrinterFlags(tasks[i], HttpFail).result)
          IN /\ out.status = "online"
             /\ out.printer_flags = None
             /\ out.printer_state = Some("standby")
             /\ out.device_status = IF tasks[i].kind = "check"
                                     THEN Some("standby") ELSE "standby"

C19_Witness ==
    /\ CallDone("check")
    /\ Unwrap(device).klippy_state = "ready"
    /\ Unwrap(device).flags.printing
    /\ Unwrap(tasks[1].result).success
    /\ Unwrap(tasks[1].result).status = "online"
    /\ Unwrap(tasks[1].result).printer_flags = None
    /\ Unwrap(tasks[1].result).device_status = Some("standby")

(* C20: a 2xx /api/printer body without a state object, without           *)
(* state.flags or with flags that do not parse makes the flags probe fail, *)
(* and the record built from it carries no flag set.                      *)
C20_FlagsNeverFabricated ==
    \A i \in DOMAIN tasks :
       tasks[i].pc = "printer_flags"
       => \A r \in FlaglessBodies :
             /\ ~get_printer_flags(r).ok
             /\ Unwrap(TaskPrinterFlags(tasks[i], r).result).printer_flags
                   = None

(* C21: a call sends at most API_SCAN_RETRY_COUNT /server/info requests,  *)
(* each but the first after a failed one; a successful request is the     *)
(* last; when all of them failed check_host_status answers offline with   *)
(* success false and scan_host returns no host, and only then.            *)
C21_LivenessRetries ==
    scanPc = "call" =>
       /\ liveRequests <= API_SCAN_RETRY_COUNT
       /\ liveRequests <= liveFailures + 1
       /\ liveFailures <= liveRequests
       /\ tasks[1].ip \in liveOk => liveRequests = liveFailures + 1
       /\ (tasks[1].pc = "done" /\ liveFailures = API_SCAN_RETRY_COUNT)
             => /\ tasks[1].ip \notin liveOk
                /\ tasks[1].result = IF tasks[1].kind = "check"
                                      THEN Some(OfflineResponse) ELSE None
       /\ (tasks[1].pc = "done" /\ tasks[1].open
           /\ tasks[1].ip \notin liveOk)
             => liveFailures = API_SCAN_RETRY_COUNT

C21_Witness ==
    /\ CallDone("check")
    /\ liveRequests = API_SCAN_RETRY_COUNT
    /\ liveFailures = API_SCAN_RETRY_COUNT
    /\ Unwrap(tasks[1].result).status = "offline"
    /\ Unwrap(tasks[1].result).success = FALSE

(* C22: a flags request that fails by transport error or non-2xx status   *)
(* is repeated: the first failure does not yet resolve the future with an *)
(* absent flag set.                                                       *)
C22_FlagsProbeRetries ==
    \A i \in DOMAIN tasks :
       tasks[i].pc = "printer_flags"
       => TaskPrinterFlags(tasks[i], HttpFail).pc /= "done"

(* C26: the adaptive port probe makes at most PORT_SCAN_RETRY_COUNT        *)
(* connects with the 500 ms timeout, then at most PORT_SCAN_RETRY_COUNT    *)
(* with the 800 ms timeout, a long one only after every short one failed;  *)
(* the first connect that succeeds is the last one and makes the probe     *)
(* true; the probe is false only when every connect of both tiers failed.  *)
C26_AdaptiveProbeEscalates ==
    scanPc = "call" =>
       /\ Len(probeLog) <= 2 * PORT_SCAN_RETRY_COUNT
       /\ \A k \in DOMAIN probeLog :
             /\ probeLog[k][1] = IF k <= PORT_SCAN_RETRY_COUNT
                                 THEN DEFAULT_PORT_SCAN_TIMEOUT_MS
                                 ELSE SLOW_NETWORK_TIMEOUT_MS
             /\ probeLog[k][2] => k = Len(probeLog)
             /\ k < Len(probeLog) => ~probeLog[k][2]
       /\ (probeLog /= << >> /\ probeLog[Len(probeLog)][2])
             => /\ tasks[1].pc /= "connect"
                /\ tasks[1].open
                /\ callProbe = "connected"
       /\ (tasks[1].pc = "connect" /\ probeLog /= << >>)
             => ~probeLog[Len(probeLog)][2]
       /\ (tasks[1].pc = "done" /\ ~tasks[1].open /\ tasks[1].ip \in IpStrings)
             => /\ Len(probeLog) = 2 * PORT_SCAN_RETRY_COUNT
                /\ \A k \in DOMAIN probeLog : ~probeLog[k][2]
       /\ tasks[1].open
             => probeLog /= << >> /\ probeLog[Len(probeLog)][2]

C26_Witness ==
    /\ scanPc = "call"
    /\ tasks[1].open
    /\ probeLog = << << DEFAULT_PORT_SCAN_TIMEOUT_MS, FALSE >>,
                     << SLOW_NETWORK_TIMEOUT_MS, TRUE >> >>

(* C23: every record of a returned ScanResult is for an address whose     *)
(* /server/info request succeeded, carries that address as id and          *)
(* ip_address, is "online" with failure counter 0 and a last-seen stamp,   *)
(* is labelled with the range of an enabled subnet that contains the       *)
(* address, and has as hostname the one /printer/info reported, or the     *)
(* address when it reported none.                                          *)
C23_RecordsOfLiveHosts ==
    /\ ScanReturnedOk =>
          \A k \in DOMAIN scanResult.hosts :
             LET h == scanResult.hosts[k]
             IN /\ Succeeded(h.ip_address)
                /\ h.id = h.ip_address
                /\ h.status = "online"
                /\ h.failed_attempts = Some(0)
                /\ IsSome(h.last_seen)
                /\ \E j \in DOMAIN enabled_subnets :
                      /\ enabled_subnets[j].enabled
                      /\ enabled_subnets[j].range = h.subnet
                      /\ h.ip_address \in HostsOfRange[h.subnet]
                /\ h.hostname \in
                      {h.ip_address} \cup
                      { Unwrap(ReportedHostname(r)) :
                          r \in { q \in PrinterInfoAnswers :
                                    IsSome(ReportedHostname(q)) } }
    /\ \A i \in DOMAIN tasks :
          /\ (tasks[i].kind = "scan_host" /\ tasks[i].pc = "printer_info")
                => \A r \in PrinterInfoResponses :
                      TaskPrinterInfo(tasks[i], r).hostname =
                         IF IsSome(ReportedHostname(r))
                         THEN Unwrap(ReportedHostname(r)) ELSE tasks[i].ip
          /\ (tasks[i].kind = "scan_host" /\ tasks[i].pc = "printer_flags")
                => /\ tasks[i].ip \in liveOk
                   /\ \A r \in FlagsAnswers :
                         LET h == Unwrap(TaskPrinterFlags(tasks[i], r).result)
                         IN /\ h.hostname = tasks[i].hostname
                            /\ h.ip_address = tasks[i].ip

C23_Witness ==
    /\ ScanReturnedOk
    /\ Len(scanResult.hosts) = 2
    /\ scanResult.hosts[1].hostname = "voron"
    /\ scanResult.hosts[2].hostname = scanResult.hosts[2].ip_address
    /\ scanResult.hosts[1].subnet = RangeA
    /\ Succeeded(scanResult.hosts[2].ip_address)

(* The record scan_network returns for an address, from what that address *)
(* answered and the subnet map alone.                                      *)
RecordOf(ip) ==
    LET server_info == Unwrap(check_moonraker_api(Unwrap(answered[ip].server)).val)
        reported == Unwrap(answered[ip].info)
        hostname == IF IsSome(reported) THEN Unwrap(reported) ELSE ip
        probe == Unwrap(answered[ip].flags)
        printer_flags == IF probe.ok THEN probe.val ELSE None
    IN [id |-> ip, hostname |-> hostname, original_hostname |-> hostname,
        ip_address |-> ip, subnet |-> ip_subnet_map[ip], status |-> "online",
        device_status |-> PrinterState(printer_flags),
        moonraker_version |-> Some(server_info.moonraker_version),
        klippy_state |-> Some(server_info.klippy_state),
        printer_state |-> Some(PrinterState(printer_flags)),
        printer_flags |-> printer_flags,
        last_seen |-> Some("now"), failed_attempts |-> Some(0)]

(* C24: whatever the order in which the probes complete and the open      *)
(* addresses are iterated, a returned ScanResult holds exactly one record  *)
(* for each address whose probes succeeded and none for any other, each    *)
(* record is the one that address's own answers determine, online_hosts    *)
(* is the number of these addresses and total_hosts the number of          *)
(* candidates.                                                             *)
C24_OrderIndependent ==
    ScanReturnedOk =>
       /\ \A ip \in IpStrings :
             Cardinality({ k \in DOMAIN scanResult.hosts :
                             scanResult.hosts[k].ip_address = ip })
                = IF Succeeded(ip) THEN 1 ELSE 0
       /\ \A k \in DOMAIN scanResult.hosts :
             scanResult.hosts[k] = RecordOf(scanResult.hosts[k].ip_address)
       /\ scanResult.online_hosts =
             Cardinality({ ip \in IpStrings : Succeeded(ip) })
       /\ scanResult.total_hosts = Len(all_ips)

C24_Witness ==
    /\ ScanReturnedOk
    /\ Len(scanResult.hosts) = 2
    /\ scanResult.hosts[1].ip_address = "2"
    /\ scanResult.hosts[2].ip_address = "1"
    /\ scanResult.hosts[1].device_status = "printing"
    /\ scanResult.hosts[2].device_status = "standby"
    /\ scanResult.online_hosts = 2

(* scan_network returned Ok with scan_progress 100 or InvalidSubnet; the  *)
(* single-host call returned.                                              *)
Returned ==
    \/ /\ scanPc = "done"
       /\ \/ scanResult.ok /\ scanResult.scan_progress = 100
          \/ ~scanResult.ok /\ scanResult.err = "InvalidSubnet"
    \/ /\ scanPc = "call"
       /\ tasks[1].pc = "done"
       /\ tasks[1].kind = "check" => IsSome(tasks[1].result)

(* C25: once called, scan_network eventually returns Ok with progress 100 *)
(* or InvalidSubnet, and check_host_status (and scan_host) eventually      *)
(* returns its response.                                                   *)
C25_ScanTerminates == (scanPc /= "idle") ~> Returned

C25_Witness ==
    /\ ScanReturnedOk
    /\ scanResult.scan_progress = 100
    /\ Len(all_ips) > PORT_SCAN_CONCURRENCY
    /\ \E ip \in IpStrings : lastProbe[ip] = "open" /\ ip \notin liveOk

(* The Klippy states a host record may carry. *)
RecordKlippyStates ==
    {None, Some("ready"), Some("error"), Some("disconnected")}

(* A host record with the given connectivity, Klippy state and flag set,  *)
(* its device status as scan_host derives it.                              *)
HostWith(status, klippy_state, printer_flags) ==
    [HostInfoNew("1", "1", RangeA) EXCEPT
       !.status = status, !.klippy_state = klippy_state,
       !.printer_flags = printer_flags,
       !.device_status = PrinterState(printer_flags)]

(* The label of the fixed order: offline when not reachable or Klippy     *)
(* disconnected, then cancelling, error, paused, printing by the flags,    *)
(* standby otherwise.                                                      *)
OrderedLabel(status, klippy_state, printer_flags) ==
    IF status = "offline" \/ klippy_state = Some("disconnected")
    THEN "offline"
    ELSE IF ~IsSome(printer_flags) THEN "standby"
    ELSE IF Unwrap(printer_flags).cancelling THEN "cancelling"
    ELSE IF Unwrap(printer_flags).error THEN "error"
    ELSE IF Unwrap(printer_flags).paused THEN "paused"
    ELSE IF Unwrap(printer_flags).printing THEN "printing"
    ELSE "standby"

(* C27: for every connectivity, Klippy state and present or absent flag   *)
(* set, get_printer_status of the bot returns the label of the fixed       *)
(* order, and for a reachable host whose Klippy is not disconnected so do  *)
(* the scanner's resolution and the one inlined in lib.rs.                 *)
C27_ResolversAgree ==
    statusOut /= "" =>
       \A status \in {"online", "offline"}, klippy_state \in RecordKlippyStates,
          printer_flags \in {None, flagsIn} :
          LET label == OrderedLabel(status, klippy_state, printer_flags)
          IN /\ get_printer_status(HostWith(status, klippy_state, printer_flags))
                   = label
             /\ (status = "online" /\ klippy_state /= Some("disconnected"))
                   => /\ PrinterState(printer_flags) = label
                      /\ lib_printer_state(printer_flags) = label

(* C28: after update_online without a flag set the record is online with  *)
(* device status "standby".                                                *)
C28_AbsentFlagsMeanStandby ==
    (IsSome(host) /\ lastOp = "update_online"
     /\ HostRecord.printer_flags = None)
    => /\ HostRecord.status = "online"
       /\ HostRecord.device_status = "standby"

(* C29: a step of update_online or update_offline leaves id, ip_address,  *)
(* hostname, original_hostname and subnet as they were, and a step of      *)
(* update_offline also moonraker_version, klippy_state, printer_flags and  *)
(* last_seen.                                                              *)
C29_IdentityKept ==
    [][(IsSome(host) /\ IsSome(host'))
       => /\ Unwrap(host').id = Unwrap(host).id
          /\ Unwrap(host').ip_address = Unwrap(host).ip_address
          /\ Unwrap(host').hostname = Unwrap(host).hostname
          /\ Unwrap(host').original_hostname = Unwrap(host).original_hostname
          /\ Unwrap(host').subnet = Unwrap(host).subnet
          /\ (lastOp' = "update_offline")
                => /\ Unwrap(host').moonraker_version
                         = Unwrap(host).moonraker_version
                   /\ Unwrap(host').klippy_state = Unwrap(host).klippy_state
                   /\ Unwrap(host').printer_flags = Unwrap(host).printer_flags
                   /\ Unwrap(host').last_seen = Unwrap(host).last_seen]_vars

C29_Witness ==
    /\ IsSome(host)
    /\ lastOp = "update_offline"
    /\ failures >= 3
    /\ HostRecord.status = "offline"
    /\ HostRecord.hostname = "voron"
    /\ HostRecord.subnet = RangeA
    /\ HostRecord.printer_flags = Some(PrintingFlags)
    /\ HostRecord.klippy_state = Some("ready")
    /\ IsSome(HostRecord.last_seen)

(* C30: a monitoring task begins no check cycle once stop() was called    *)
(* and a sleep of the task has ended since.                                *)
C30_MonitorStops ==
    \A i \in DOMAIN monitors : ~monitors[i].late

(* The monitoring loops that have not ended. *)
AliveMonitors == { i \in DOMAIN monitors : monitors[i].pc /= "stopped" }

(* C31: at most one monitoring loop is alive, and is_running() is true    *)
(* exactly when one is.                                                    *)
C31_OneMonitorLoop ==
    /\ Cardinality(AliveMonitors) <= 1
    /\ is_running <=> AliveMonitors /= {}

(* C32: a returned ScanResult has online_hosts = Len(hosts), and          *)
(* online_hosts <= the number of addresses with an open port               *)
(* <= total_hosts.                                                         *)
C32_CountsOrdered ==
    ScanReturnedOk =>
       /\ scanResult.online_hosts = Len(scanResult.hosts)
       /\ scanResult.online_hosts <= Len(hosts_with_open_port)
       /\ Len(hosts_with_open_port) =
             Cardinality({ ip \in DOMAIN port_scan_results :
                             port_scan_results[ip] })
       /\ Len(hosts_with_open_port) <= scanResult.total_hosts

C32_Witness ==
    /\ ScanReturnedOk
    /\ scanResult.online_hosts = 1
    /\ Len(scanResult.hosts) = 1
    /\ Len(hosts_with_open_port) = 2
    /\ scanResult.total_hosts = 4

(* C33: no two records of a returned ScanResult carry the same address,   *)
(* also when an address was a candidate more than once.                    *)
C33_NoDuplicateRecords ==
    ScanReturnedOk =>
       \A j, k \in DOMAIN scanResult.hosts :
          j /= k => scanResult.hosts[j].ip_address
                       /= scanResult.hosts[k].ip_address

C33_Witness ==
    /\ ScanReturnedOk
    /\ Len(enabled_subnets) = 2
    /\ enabled_subnets[1].range = enabled_subnets[2].range
    /\ \E j, k \in DOMAIN all_ips : j /= k /\ all_ips[j] = all_ips[k]
    /\ Len(scanResult.hosts) = 2
    /\ scanResult.total_hosts = 4

(* C34: is_offline() is true exactly when the record's status is          *)
(* "offline".                                                              *)
C34_IsOfflineMatchesStatus ==
    IsSome(host) => (is_offline(HostRecord) <=> HostRecord.status = "offline")

(* What the last handler run left, once there was one. *)
LastRun == Unwrap(lastRun)

(* The code the last start_registration call returned. *)
SessionCode == Unwrap(lastStart).result.val

(* C35: within one registration session the attempts counter never       *)
(* exceeds max_attempts, which is 3; the third wrong code an unregistered  *)
(* user sends deactivates the session, and from then on no message, the    *)
(* correct code included, registers anyone until start_registration is     *)
(* called again.                                                           *)
C35_AttemptsBounded ==
    /\ reg_state.max_attempts = 3
    /\ reg_state.attempts <= reg_state.max_attempts
    /\ wrongCodes <= reg_state.max_attempts
    /\ wrongCodes >= reg_state.max_attempts => ~reg_state.is_active
    /\ IsSome(lastRun) /\ LastRun.locked => ~LastRun.added

(* After three wrong codes the code of the session was sent and ignored. *)
C35_Witness ==
    /\ wrongCodes = 3
    /\ ~reg_state.is_active
    /\ IsSome(lastStart)
    /\ Unwrap(lastStart).result.ok
    /\ IsSome(lastRun)
    /\ LastRun.locked
    /\ ~LastRun.is_registered
    /\ Some(LastRun.payload) = SessionCode
    /\ ~LastRun.added
    /\ ~IsRegistered(registered_users, LastRun.user)

(* C36: a registration code is single-use: per successful call of        *)
(* start_registration at most one user is pushed to registered_users,      *)
(* however the messages of unregistered users carrying the code            *)
(* interleave, and a message registers its sender only if it carries the   *)
(* code while the session is active, not expired and below the limit.      *)
C36_CodeSingleUse ==
    /\ addedInSession <= 1
    /\ IsSome(lastRun) /\ LastRun.added =>
          /\ LastRun.kind = "message"
          /\ ~LastRun.is_registered
          /\ LastRun.matches
          /\ LastRun.live
          /\ LastRun.below

(* One user registered with the code, and the message of another          *)
(* unregistered user carrying the same code, read before that, ran after   *)
(* it and registered nobody.                                               *)
C36_Witness ==
    /\ addedInSession = 1
    /\ Len(registered_users) = 1
    /\ IsSome(lastStart)
    /\ Unwrap(lastStart).result.ok
    /\ IsSome(lastRun)
    /\ LastRun.kind = "message"
    /\ ~LastRun.is_registered
    /\ Some(LastRun.payload) = SessionCode
    /\ ~LastRun.added
    /\ ~LastRun.locked
    /\ ~IsRegistered(registered_users, LastRun.user)
    /\ clock = 0

(* C37: whenever is_registration_active() is false (registration never    *)
(* started, finished, or expired) a call of start_registration succeeds    *)
(* and returns a code; it fails with "Registration is already active"      *)
(* only while is_registration_active() is true.                            *)
C37_StartSucceedsWhenInactive ==
    IsSome(lastStart) =>
        /\ ~Unwrap(lastStart).active =>
              /\ Unwrap(lastStart).result.ok
              /\ Unwrap(Unwrap(lastStart).result.val) \in Codes
        /\ ~Unwrap(lastStart).result.ok =>
              /\ Unwrap(lastStart).active
              /\ Unwrap(lastStart).result.val
                    = Some("Registration is already active")

ControlRequests == {"emergency_stop", "stop_print", "firmware_restart"}

(* The updates of an unregistered sender that are to be ignored: every    *)
(* callback, every command, and a text outside an active registration.     *)
IgnoredUpdate(r) ==
    /\ r.kind \in {"callback", "message"}
    /\ ~r.is_registered
    /\ \/ r.kind = "callback"
       \/ r.payload \in CommandTexts
       \/ ~r.live

(* C38 as stated: a control request (emergency stop, print cancel,        *)
(* firmware restart) or a webcam fetch is sent only while handling a       *)
(* callback whose sender is a registered user; callbacks, commands and,    *)
(* outside an active registration, texts of unregistered users cause no    *)
(* request and no reply.                                                   *)
C38_RequestsOnlyInCallbacks ==
    IsSome(lastRun) =>
        /\ LastRun.effects \cap (ControlRequests \cup {"webcam"}) /= {} =>
              LastRun.kind = "callback" /\ LastRun.is_registered
        /\ IgnoredUpdate(LastRun) => LastRun.effects = {}

(* C38, amended: a control request is sent only while handling a callback *)
(* whose sender the handler found among the registered users; a webcam     *)
(* image is fetched there and when the application sends a notification    *)
(* that names a host; callbacks, commands and, outside an active           *)
(* registration, texts of unregistered users cause no request and no       *)
(* reply.                                                                  *)
C38_RequestsForRegisteredOrNotification ==
    IsSome(lastRun) =>
        /\ LastRun.effects \cap ControlRequests /= {} =>
              LastRun.kind = "callback" /\ LastRun.is_registered
        /\ "webcam" \in LastRun.effects =>
              \/ LastRun.kind = "callback" /\ LastRun.is_registered
              \/ LastRun.kind = "notification" /\ LastRun.payload = "host"
        /\ IgnoredUpdate(LastRun) => LastRun.effects = {}

(* An unregistered user confirmed an emergency stop of a cached host and  *)
(* nothing was sent.                                                       *)
C38_Witness ==
    /\ IsSome(lastRun)
    /\ LastRun.kind = "callback"
    /\ LastRun.payload = << "emergency", "confirm", "10.0.0.1" >>
    /\ ~LastRun.is_registered
    /\ ~IsRegistered(registered_users, LastRun.user)
    /\ LastRun.effects = {}

(* C39: update_config always returns: called with enabled = true and a    *)
(* non-empty token while the bot is not running it completes with          *)
(* is_running() = true; called with enabled = false it completes with      *)
(* is_running() = false; called while running with a changed token it      *)
(* stops the running bot before it starts again.                           *)
C39_UpdateConfigReturns ==
    managerCall = "update_config" =>
        /\ ~(managerPc = "start_lock" /\ configLock = "update_config")
        /\ managerPc = "returned" =>
              /\ /\ Unwrap(updateArg).enabled
                 /\ Unwrap(updateArg).bot_token /= ""
                 /\ ~wasRunning
                 => manager_running
              /\ ~Unwrap(updateArg).enabled => ~manager_running
              /\ /\ wasRunning
                 /\ Unwrap(updateArg).bot_token
                       /= Unwrap(prevConfig).bot_token
                 => stoppedBot

====
